---- MODULE Spec2Model ----
\* Tournament state machine of the EDH free-for-all tournament bot
\* (src/cogs/tournament.py; src/edh_tournament_bot.py holds the same handlers).
\* The registry TOURNAMENTS, the slash-command handlers and the timeout sweep
\* are modelled; a handler is an operator from the registry and the command's
\* arguments to the new registry and the reply it sends.
EXTENDS Integers, Sequences, FiniteSets, TLC

\* ---------------------------------------------------------------- bounds
\* Clock ticks (minutes) explored, and the largest argument
\* get_point_allocation is tried with.
MaxTicks == 2
MaxPodLen == 60
\* make_pods on its own: the most players, the most players whose every
\* shuffle is tried, and the largest pod_size.
MaxPodPlayers == 9
MaxShuffled == 4
MaxPodSize == 5

\* The tournaments created under one base name.
MaxSuffix == 2

\* The names and the parameters given to /create_tournament.
Names == {<<"E", "d", "H", "!">>}
MaxRoundsArgs == {4}
TimeLimits == {0}

\* elapsed_minutes = (now - start_time) / 60
SecondsPerMinute == 60

VARIABLES
    TOURNAMENTS,    \* the registry: tournament id -> Tournament
    now,            \* time.time(), in seconds
    probe,          \* a utility function called on its own: [fn, arg, out]
    store,          \* tournaments.json: None, or <<the object save_all wrote>>
    watchdog,       \* the check_round_timeouts task: where it is in its sweep
    notices,        \* the notifications attempted so far: attempt -> how often
    started,        \* <<tournament id, round number>> -> when start_round ran
    replying        \* the report_game handlers at the await of their reply

vars == <<TOURNAMENTS, now, probe, store, watchdog, notices, started, replying>>

\* ---------------------------------------------------------------- helpers
Range(s) == {s[i] : i \in DOMAIN s}

Min(a, b) == IF a < b THEN a ELSE b

\* An empty dict.
EmptyDict == [k \in {} |-> 0]

\* Optional[float]: None is the empty sequence, a value v is <<v>>.
None == <<>>

\* d with the key k set to v (d[k] = v).
DictSet(d, k, v) == [x \in (DOMAIN d) \cup {k} |-> IF x = k THEN v ELSE d[x]]

\* d without the key k (del d[k]).
DictDel(d, k) == [x \in (DOMAIN d) \ {k} |-> d[x]]

\* {k: v for k, v in zip(keys, vals)}: zip stops at the shorter sequence and a
\* repeated key keeps the value of its last occurrence.
DictFromZip(keys, vals) ==
    LET n == Min(Len(keys), Len(vals))
        last(k) == CHOOSE i \in 1..n : keys[i] = k /\ \A j \in 1..n : keys[j] = k => j <= i
    IN  [k \in {keys[i] : i \in 1..n} |-> vals[last(k)]]

\* All orders random.shuffle can leave a list of the elements of S in.
Shuffles(S) ==
    {p \in [1..Cardinality(S) -> S] : \A i, j \in 1..Cardinality(S) : p[i] = p[j] => i = j}

\* list.remove(x): drops the first occurrence of x.
ListRemove(s, x) ==
    LET first == CHOOSE i \in 1..Len(s) : s[i] = x /\ \A j \in 1..(i-1) : s[j] # x
    IN  [i \in 1..(Len(s) - 1) |-> IF i < first THEN s[i] ELSE s[i + 1]]

\* str(interaction.user): the account name of a user.
NameOf(u) == <<"user", u>>

\* ---------------------------------------------------------------- data model
Player(pid) == [id |-> pid, name |-> NameOf(pid), points |-> 0, matches_played |-> 0]

Game(pod_number, players) ==
    [pod_number |-> pod_number, players |-> players,
     results_reported |-> FALSE, results |-> EmptyDict]

\* Every round is given the number 1.
Round_NumberOne(number, games, start_time) ==
    [number |-> 1, games |-> games, active |-> TRUE,
     start_time |-> start_time, notified_timeout |-> FALSE]

Round(number, games, start_time) ==
    [number |-> number, games |-> games, active |-> TRUE,
     start_time |-> start_time, notified_timeout |-> FALSE]

Tournament(id, name, host, pod_size, max_rounds, time_limit) ==
    [id |-> id, name |-> name, host |-> host, players |-> EmptyDict,
     rounds |-> <<>>, finished |-> FALSE, pod_size |-> pod_size,
     max_rounds |-> max_rounds, time_limit |-> time_limit]

\* ---------------------------------------------------------------- utilities
\* str.lower() and str.isalnum() on the characters the names are written in.
Lower(ch) ==
    CASE ch = "E" -> "e"
      [] ch = "H" -> "h"
      [] OTHER -> ch

IsAlnum(ch) == ch \in {"E", "H", "e", "d", "h", "1"}

BaseLen == 20

IsIdChar(ch) == IsAlnum(ch) \/ ch = "_"

\* The id f"{base}_{i}" is the pair <<base, i>>.
\* Without the loop: always f"{base}_1".
generate_tournament_id_First(T, name) ==
    LET lowered == [i \in 1..Len(name) |-> Lower(name[i])]
        kept == SelectSeq(lowered, IsIdChar)
    IN  <<SubSeq(kept, 1, Min(BaseLen, Len(kept))), 1>>

generate_tournament_id(T, name) ==
    LET lowered == [i \in 1..Len(name) |-> Lower(name[i])]
        kept == SelectSeq(lowered, IsIdChar)
        base == SubSeq(kept, 1, Min(BaseLen, Len(kept)))
        i == CHOOSE n \in 1..(Cardinality(DOMAIN T) + 1) :
                 /\ <<base, n>> \notin DOMAIN T
                 /\ \A m \in 1..(n - 1) : <<base, m>> \in DOMAIN T
    IN  <<base, i>>

\* Where the slices l[:k] and l[k:] of a list of n elements divide it: after
\* k elements, no further than its end, and for a negative k before the last
\* -k elements, no earlier than its start.
SliceIndex(n, k) ==
    IF k >= 0 THEN Min(k, n)
    ELSE IF n + k > 0 THEN n + k ELSE 0

\* One iteration of the while loop of make_pods, from the players left, the
\* pods made and the next pod number in st.
make_pods_step(pod_size, st) ==
    LET cut == SliceIndex(Len(st.players), pod_size)
    IN  [players |-> SubSeq(st.players, cut + 1, Len(st.players)),
         pods |-> Append(st.pods, Game(st.pod_number, SubSeq(st.players, 1, cut))),
         pod_number |-> st.pod_number + 1]

\* The pods of a round from the shuffled list of the registered players.
RECURSIVE Chunks(_, _, _)
Chunks(players, pod_size, pod_number) ==
    IF players = <<>> THEN <<>>
    ELSE LET cut == SliceIndex(Len(players), pod_size)
         IN  <<Game(pod_number, SubSeq(players, 1, cut))>>
             \o Chunks(SubSeq(players, cut + 1, Len(players)), pod_size, pod_number + 1)

\* The pods numbered from 0.
make_pods_FromZero(t, shuffled) == Chunks(shuffled, t.pod_size, 0)

make_pods(t, shuffled) == Chunks(shuffled, t.pod_size, 1)

\* str(user) of the members is "user" followed by one digit: two such names
\* compare as their digits do.
NameLess(a, b) == a[2] < b[2]

\* The sort key with the matches descending.
KeyLess_MatchesDescending(p, q) ==
    \/ p.points > q.points
    \/ p.points = q.points /\ p.matches_played > q.matches_played
    \/ p.points = q.points /\ p.matches_played = q.matches_played /\ NameLess(p.name, q.name)

\* key(p) < key(q) for key = (-p.points, p.matches_played, p.name).
KeyLess(p, q) ==
    \/ p.points > q.points
    \/ p.points = q.points /\ p.matches_played < q.matches_played
    \/ p.points = q.points /\ p.matches_played = q.matches_played /\ NameLess(p.name, q.name)

\* sorted(S, key): the smallest key first.
RECURSIVE SortedByKey(_)
SortedByKey(S) ==
    IF S = {} THEN <<>>
    ELSE LET m == CHOOSE p \in S : \A q \in S \ {p} : ~KeyLess(q, p)
         IN  <<m>> \o SortedByKey(S \ {m})

standings_list(t) == SortedByKey({t.players[pid] : pid \in DOMAIN t.players})

\* The table of the module docstring of edh_tournament_bot.py (3, 2, 1, 0).
get_point_allocation_Old(pod_len) ==
    IF pod_len = 4 THEN <<3, 2, 1, 0>>
    ELSE IF pod_len = 3 THEN <<3, 2, 0>>
    ELSE IF pod_len = 2 THEN <<3, 2>>
    ELSE <<2>>

get_point_allocation(pod_len) ==
    IF pod_len = 4 THEN <<4, 3, 2, 1>>
    ELSE IF pod_len = 3 THEN <<4, 3, 2>>
    ELSE IF pod_len = 2 THEN <<3, 2>>
    ELSE <<2>>

\* The check every organizer command carries: administrator or the role.
is_tournament_organizer(actor) == actor.administrator \/ actor.organizer_role

\* ---------------------------------------------------------------- persistence
\* str(pid) and int(key): the decimal string of the id n is written 0 - n;
\* ids are positive, so no string equals an id.
str(pid) == 0 - pid

int(key) == 0 - key

\* json.dump writes every key of an object as a string: an int key becomes
\* its decimal string, a string key stays.
JsonKey(k) == IF k > 0 THEN str(k) ELSE k

JsonObject(d) ==
    [key \in {JsonKey(k) : k \in DOMAIN d} |-> d[CHOOSE k \in DOMAIN d : JsonKey(k) = key]]

\* The object save_all dumps into tournaments.json.
save_all(data) ==
    [tid \in DOMAIN data |->
        LET t == data[tid]
        IN  [id |-> t.id, name |-> t.name, host |-> t.host,
             players |->
                 [key \in {str(pid) : pid \in DOMAIN t.players} |->
                     LET p == t.players[int(key)]
                     IN  [id |-> p.id, name |-> p.name, points |-> p.points,
                          matches_played |-> p.matches_played]],
             rounds |->
                 [i \in DOMAIN t.rounds |->
                     [number |-> t.rounds[i].number,
                      games |->
                          [j \in DOMAIN t.rounds[i].games |->
                              LET g == t.rounds[i].games[j]
                              IN  [pod_number |-> g.pod_number, players |-> g.players,
                                   results_reported |-> g.results_reported,
                                   results |-> JsonObject(g.results)]],
                      active |-> t.rounds[i].active]],
             finished |-> t.finished, pod_size |-> t.pod_size,
             max_rounds |-> t.max_rounds, time_limit |-> t.time_limit]]

\* The registry load_all builds from the file: {} when there is none.
load_all(file) ==
    IF file = None THEN EmptyDict
    ELSE LET raw == file[1]
         IN  [tid \in DOMAIN raw |->
                 LET t == raw[tid]
                 IN  [id |-> t.id, name |-> t.name, host |-> t.host,
                      players |->
                          [pid \in {int(key) : key \in DOMAIN t.players} |->
                              LET p == t.players[str(pid)]
                              IN  [id |-> p.id, name |-> p.name, points |-> p.points,
                                   matches_played |-> p.matches_played]],
                      rounds |->
                          [i \in DOMAIN t.rounds |->
                              [number |-> t.rounds[i].number,
                               games |-> t.rounds[i].games,
                               active |-> t.rounds[i].active,
                               start_time |-> None,
                               notified_timeout |-> FALSE]],
                      finished |-> t.finished, pod_size |-> t.pod_size,
                      max_rounds |-> t.max_rounds, time_limit |-> t.time_limit]]

\* tournaments.json after save_all has run on the object raw, ending as
\* outcome says: "ok"; "raises", an OSError of the temporary file, of
\* json.dump or of the move (disk full, permission denied); "killed", the
\* process ended in the middle of it.  The object is dumped into a temporary
\* file of the same directory, which is then moved over tournaments.json: the
\* file is replaced whole, or not at all.
write_file_InPlace(file, raw, outcome) ==
    IF outcome = "ok" THEN <<raw>> ELSE <<raw, "truncated">>

write_file(file, raw, outcome) ==
    IF outcome = "ok" THEN <<raw>> ELSE file

\* ---------------------------------------------------------------- handlers
\* A handler yields the registry it leaves in T and the message it replies.
Result(T, msg) == [T |-> T, msg |-> msg]

NoRole == "You need the Tournament Organizer role to use this command."

create_tournament(T, actor, name, pod_size, max_rounds, time_limit) ==
    IF ~is_tournament_organizer(actor) THEN Result(T, NoRole)
    ELSE LET tid == generate_tournament_id(T, name)
             t == Tournament(tid, name, actor.id, pod_size, max_rounds, time_limit)
         IN  Result(DictSet(T, tid, t), "Tournament created.")

\* The check left out.
IsFinished_Never(t) == FALSE

\* if t.finished
IsFinished(t) == t.finished

\* The check left out: registering again writes a new Player over the old.
IsRegistered_Never(t, pid) == FALSE

\* if pid in t.players
IsRegistered(t, pid) == pid \in DOMAIN t.players

\* The Player is added to every tournament of the registry that is open.
register_Everywhere(T, pid, tournament_id) ==
    IF tournament_id \notin DOMAIN T THEN Result(T, "Tournament not found.")
    ELSE LET t == T[tournament_id]
         IN  IF IsFinished(t) THEN Result(T, "Tournament already finished.")
             ELSE IF IsRegistered(t, pid) THEN Result(T, "You are already registered.")
             ELSE Result([tid \in DOMAIN T |->
                             IF T[tid].finished THEN T[tid]
                             ELSE [T[tid] EXCEPT !.players = DictSet(@, pid, Player(pid))]],
                         "registered.")

\* pid is interaction.user.id.
register(T, pid, tournament_id) ==
    IF tournament_id \notin DOMAIN T THEN Result(T, "Tournament not found.")
    ELSE LET t == T[tournament_id]
         IN  IF IsFinished(t) THEN Result(T, "Tournament already finished.")
             ELSE IF IsRegistered(t, pid) THEN Result(T, "You are already registered.")
             ELSE Result([T EXCEPT ![tournament_id].players = DictSet(t.players, pid, Player(pid))],
                         "registered.")

\* The check left out: a round can start while another is running.
HasActiveRound_Never(t) == FALSE

\* for r in t.rounds: if r.active
HasActiveRound(t) == \E i \in DOMAIN t.rounds : t.rounds[i].active

\* shuffled is the order random.shuffle leaves the player ids in, time is time.time().
start_round(T, actor, tournament_id, shuffled, time) ==
    IF ~is_tournament_organizer(actor) THEN Result(T, NoRole)
    ELSE IF tournament_id \notin DOMAIN T THEN Result(T, "Tournament not found.")
    ELSE LET t == T[tournament_id]
         IN  IF IsFinished(t) THEN Result(T, "Tournament already finished.")
             ELSE IF Cardinality(DOMAIN t.players) < 2 THEN Result(T, "Need at least 2 players.")
             ELSE IF HasActiveRound(t)
                  THEN Result(T, "A round is still active. Finish it first.")
             ELSE LET pods == make_pods(t, shuffled)
                      rnd == Round(Len(t.rounds) + 1, pods, <<time>>)
                  IN  Result([T EXCEPT ![tournament_id].rounds = Append(t.rounds, rnd)],
                             "Round pods.")

\* The match is counted for every registered player, placed or not.
AwardPoints_CountsAll(players, results) ==
    [pid \in DOMAIN players |->
        IF pid \in DOMAIN results
        THEN [players[pid] EXCEPT !.points = @ + results[pid], !.matches_played = @ + 1]
        ELSE [players[pid] EXCEPT !.matches_played = @ + 1]]

\* The players of t after a reported pod's points are added: every key of
\* results that is a registered player gains its points and one match.
AwardPoints(players, results) ==
    [pid \in DOMAIN players |->
        IF pid \in DOMAIN results
        THEN [players[pid] EXCEPT !.points = @ + results[pid], !.matches_played = @ + 1]
        ELSE players[pid]]

\* all(g.results_reported for g in r.games)
AllReported(games) == \A i \in DOMAIN games : games[i].results_reported

\* The guard written as "if game.results": a pod closed without results
\* passes it.
AlreadyReported_ByResults(game) == game.results # EmptyDict

\* The guard left out.
AlreadyReported_Never(game) == FALSE

\* if game.results_reported
AlreadyReported(game) == game.results_reported

\* pod_players is [first, second] + [third] + [fourth], 2 to 4 user ids.
report_game(T, tournament_id, pod_number, pod_players) ==
    IF tournament_id \notin DOMAIN T THEN Result(T, "Tournament not found.")
    ELSE LET t == T[tournament_id]
         IN  IF t.rounds = <<>> THEN Result(T, "No rounds started.")
             ELSE LET last == Len(t.rounds)
                      r == t.rounds[last]
                  IN  IF ~r.active THEN Result(T, "The current round has ended.")
                      ELSE IF ~\E i \in DOMAIN r.games : r.games[i].pod_number = pod_number
                           THEN Result(T, "Pod not found.")
                      ELSE LET gi == CHOOSE i \in DOMAIN r.games :
                                         /\ r.games[i].pod_number = pod_number
                                         /\ \A j \in 1..(i - 1) : r.games[j].pod_number # pod_number
                               game == r.games[gi]
                           IN  IF AlreadyReported(game) THEN Result(T, "This pod already reported.")
                               ELSE LET points_list == get_point_allocation(Len(pod_players))
                                        results == DictFromZip(pod_players, points_list)
                                        game2 == [game EXCEPT !.results = results,
                                                              !.results_reported = TRUE]
                                        games2 == [r.games EXCEPT ![gi] = game2]
                                        all == AllReported(games2)
                                        r2 == [r EXCEPT !.games = games2,
                                                        !.active = IF all THEN FALSE ELSE @]
                                        t2 == [t EXCEPT !.players = AwardPoints(t.players, results),
                                                        !.rounds = [t.rounds EXCEPT ![last] = r2]]
                                    IN  Result([T EXCEPT ![tournament_id] = t2],
                                               IF all THEN "Pod results recorded. All pods reported!"
                                               ELSE "Pod results recorded. Waiting for other pods.")

\* The reply lists the players in the order of standings_list.
standings(T, actor, tournament_id) ==
    IF ~is_tournament_organizer(actor) THEN Result(T, NoRole)
    ELSE IF tournament_id \notin DOMAIN T THEN Result(T, "Tournament not found.")
    ELSE LET ordered == standings_list(T[tournament_id])
         IN  [T |-> T, msg |-> "Standings.",
              lines |-> [i \in DOMAIN ordered |->
                            [id |-> ordered[i].id, points |-> ordered[i].points,
                             matches_played |-> ordered[i].matches_played]]]

\* The pod is closed when 2 or fewer members are left.
DisqualifyFromGame_AtTwo(game, pid) ==
    IF pid \in Range(game.players)
    THEN LET left == ListRemove(game.players, pid)
         IN  [game EXCEPT !.players = left,
                          !.results_reported =
                              IF Len(left) <= 2 /\ ~game.results_reported THEN TRUE ELSE @]
    ELSE game

\* A pod after pid is disqualified: pid leaves its members; a pod left with
\* fewer than 2 members that had not reported is marked reported.
DisqualifyFromGame(game, pid) ==
    IF pid \in Range(game.players)
    THEN LET left == ListRemove(game.players, pid)
         IN  [game EXCEPT !.players = left,
                          !.results_reported =
                              IF Len(left) < 2 /\ ~game.results_reported THEN TRUE ELSE @]
    ELSE game

\* The test left out: the decorator's check is the only one.
IsHostOrAdmin_Anyone(actor, t) == TRUE

\* not (interaction.user.id != t.host and not
\*      interaction.user.guild_permissions.administrator)
IsHostOrAdmin(actor, t) == ~(actor.id # t.host /\ ~actor.administrator)

disqualify(T, actor, tournament_id, pid) ==
    IF ~is_tournament_organizer(actor) THEN Result(T, NoRole)
    ELSE IF tournament_id \notin DOMAIN T THEN Result(T, "Tournament not found.")
    ELSE LET t == T[tournament_id]
         IN  IF ~IsHostOrAdmin(actor, t)
             THEN Result(T, "Only the host or an admin can disqualify a player.")
             ELSE IF pid \notin DOMAIN t.players
             THEN Result(T, "That player is not registered in this tournament.")
             ELSE LET rounds2 ==
                          [i \in DOMAIN t.rounds |->
                              [t.rounds[i] EXCEPT !.games =
                                  [j \in DOMAIN t.rounds[i].games |->
                                      DisqualifyFromGame(t.rounds[i].games[j], pid)]]]
                      t2 == [t EXCEPT !.players = DictDel(t.players, pid), !.rounds = rounds2]
                  IN  Result([T EXCEPT ![tournament_id] = t2], "disqualified.")

\* Ending also closes the round in progress.
end_tournament_ClosesRounds(T, actor, tournament_id) ==
    IF ~is_tournament_organizer(actor) THEN Result(T, NoRole)
    ELSE IF tournament_id \notin DOMAIN T THEN Result(T, "Tournament not found.")
    ELSE LET t == T[tournament_id]
         IN  IF ~IsHostOrAdmin(actor, t)
             THEN Result(T, "Only host or admin can end the tournament.")
             ELSE Result([T EXCEPT ![tournament_id].finished = TRUE,
                                   ![tournament_id].rounds =
                                       [i \in DOMAIN t.rounds |-> [t.rounds[i] EXCEPT !.active = FALSE]]],
                         "Tournament is now finished.")

end_tournament(T, actor, tournament_id) ==
    IF ~is_tournament_organizer(actor) THEN Result(T, NoRole)
    ELSE IF tournament_id \notin DOMAIN T THEN Result(T, "Tournament not found.")
    ELSE LET t == T[tournament_id]
         IN  IF ~IsHostOrAdmin(actor, t)
             THEN Result(T, "Only host or admin can end the tournament.")
             ELSE Result([T EXCEPT ![tournament_id].finished = TRUE], "Tournament is now finished.")

\* ---------------------------------------------------------------- watchdog
\* The guard that does not look at the flag.
Overdue_IgnoresFlag(t, r, time) ==
    /\ r.active
    /\ r.start_time # None /\ r.start_time[1] # 0
    /\ (time - r.start_time[1]) > SecondsPerMinute * t.time_limit

\* The limit counts as exceeded when it is reached.
Overdue_AtLimit(t, r, time) ==
    /\ r.active
    /\ r.start_time # None /\ r.start_time[1] # 0
    /\ ~r.notified_timeout
    /\ (time - r.start_time[1]) >= SecondsPerMinute * t.time_limit

\* The test of one round in a sweep that read the clock as time.
Overdue(t, r, time) ==
    /\ r.active
    /\ r.start_time # None /\ r.start_time[1] # 0
    /\ ~r.notified_timeout
    /\ (time - r.start_time[1]) > SecondsPerMinute * t.time_limit

\* The notices with one more attempt of each of S.
AddNotices(n, S) ==
    [a \in (DOMAIN n) \cup S |->
        (IF a \in DOMAIN n THEN n[a] ELSE 0) + (IF a \in S THEN 1 ELSE 0)]

\* The sweep as the event loop runs it: it runs alone up to each await, and
\* the awaits are those of the notifications.  watchdog holds
\*   pc    "sleep" between sweeps, "awake" when the sleep is over and the
\*         task waits to be run, "notify" at the awaits of a pod's
\*         notifications;
\*   time  the clock read when the sweep began;
\*   todo  the tournaments of list(TOURNAMENTS.items()) not yet done, the
\*         first being the one in hand;
\*   next  the index in t.rounds of the round in hand;
\*   pods  the pod numbers of overdue_pods not yet notified.
Asleep == [pc |-> "sleep", time |-> 0, todo |-> <<>>, next |-> 0, pods |-> <<>>]

\* The keys of the registry in the order they were inserted: tournaments of
\* one base name are created in the order of their suffix.
RECURSIVE InOrder(_)
InOrder(S) ==
    IF S = {} THEN <<>>
    ELSE LET m == CHOOSE x \in S : \A y \in S : x[2] <= y[2]
         IN  <<m>> \o InOrder(S \ {m})

\* [g.pod_number for g in r.games if not g.results_reported]
OverduePods(r) ==
    LET Unreported(g) == ~g.results_reported
        gs == SelectSeq(r.games, Unreported)
    IN  [j \in DOMAIN gs |-> gs[j].pod_number]

\* The two loops from the position wd, up to the next await or the end of
\* the sweep: every overdue round met is flagged and the file rewritten;
\* the first one with unreported pods stops the scan at its notifications.
\* saved tells whether save_all ran.
RECURSIVE Scan(_, _, _)
Scan(T, wd, saved) ==
    IF wd.todo = <<>> THEN [T |-> T, wd |-> Asleep, saved |-> saved]
    ELSE LET tid == Head(wd.todo)
             t == T[tid]
         IN  IF wd.next > Len(t.rounds)
             THEN Scan(T, [wd EXCEPT !.todo = Tail(wd.todo), !.next = 1], saved)
             ELSE LET r == t.rounds[wd.next]
                  IN  IF ~Overdue(t, r, wd.time)
                      THEN Scan(T, [wd EXCEPT !.next = wd.next + 1], saved)
                      ELSE LET T2 == [T EXCEPT ![tid].rounds[wd.next].notified_timeout = TRUE]
                               pods == OverduePods(r)
                           IN  IF pods = <<>>
                               THEN Scan(T2, [wd EXCEPT !.next = wd.next + 1], TRUE)
                               ELSE [T |-> T2,
                                     wd |-> [wd EXCEPT !.pc = "notify", !.pods = pods],
                                     saved |-> TRUE]

\* A sweep begins at the clock reading time.
begin_sweep(T, time) ==
    Scan(T, [pc |-> "scan", time |-> time, todo |-> InOrder(DOMAIN T), next |-> 1,
             pods |-> <<>>], FALSE)

\* The notice of one attempt for the pod in hand.
Notice(T, wd, kind) ==
    [tid |-> Head(wd.todo), number |-> T[Head(wd.todo)].rounds[wd.next].number,
     pod_number |-> Head(wd.pods), kind |-> kind]

\* Without the try/except: the exception of a failed delivery ends the task.
notify_pod_Unguarded(T, wd, n, dm_fails, channel_fails) ==
    IF dm_fails
    THEN [T |-> T, wd |-> [Asleep EXCEPT !.pc = "dead"], saved |-> FALSE,
          notices |-> AddNotices(n, {Notice(T, wd, "dm")})]
    ELSE IF channel_fails
    THEN [T |-> T, wd |-> [Asleep EXCEPT !.pc = "dead"], saved |-> FALSE,
          notices |-> AddNotices(n, {Notice(T, wd, "dm"), Notice(T, wd, "channel")})]
    ELSE LET rest == Tail(wd.pods)
             n2 == AddNotices(n, {Notice(T, wd, "dm"), Notice(T, wd, "channel")})
         IN  IF rest # <<>>
             THEN [T |-> T, wd |-> [wd EXCEPT !.pods = rest], saved |-> FALSE, notices |-> n2]
             ELSE [notices |-> n2] @@ Scan(T, [wd EXCEPT !.pc = "scan", !.pods = <<>>,
                                                        !.next = wd.next + 1], FALSE)

\* The notifications of the pod in hand: the direct message to the host,
\* then the channel message, each inside its own try/except, so that either
\* may fail; then the next pod, or the scan goes on after the last one.
notify_pod(T, wd, n, dm_fails, channel_fails) ==
    LET rest == Tail(wd.pods)
        n2 == AddNotices(n, {Notice(T, wd, "dm"), Notice(T, wd, "channel")})
    IN  IF rest # <<>>
        THEN [T |-> T, wd |-> [wd EXCEPT !.pods = rest], saved |-> FALSE, notices |-> n2]
        ELSE [notices |-> n2] @@ Scan(T, [wd EXCEPT !.pc = "scan", !.pods = <<>>,
                                                   !.next = wd.next + 1], FALSE)

\* ---------------------------------------------------------------- commands
\* The members who can issue a command: a user of U with the permissions
\* held at the moment of the call.
Actors(U) == [id : U, administrator : BOOLEAN, organizer_role : BOOLEAN]

\* The id of the first tournament created, the one most of the exploration
\* keeps to; before it is created no tournament has it.
TidSpace == {<<<<"e", "d", "h">>, 1>>}

\* [first, second] + [third] + [fourth] over the members U.
RankedLists(U) == UNION {[1..k -> U] : k \in 2..4}

NoProbe == [fn |-> "none", arg |-> 0, out |-> None]

\* A fresh installation: no tournaments.json, nothing loaded.
Init ==
    /\ TOURNAMENTS = EmptyDict
    /\ now = SecondsPerMinute
    /\ probe = NoProbe
    /\ store = None
    /\ watchdog = Asleep
    /\ notices = EmptyDict
    /\ started = EmptyDict
    /\ replying = 0

\* The replies of the paths that call save_all.
Saves(res) ==
    res.msg \in {"Tournament created.", "registered.", "Round pods.",
                 "Pod results recorded. All pods reported!",
                 "Pod results recorded. Waiting for other pods.",
                 "disqualified.", "Tournament is now finished."}

\* The replies of report_game that are sent before save_all is called.
RepliesFirst(res) ==
    res.msg \in {"Pod results recorded. All pods reported!",
                 "Pod results recorded. Waiting for other pods."}

\* The end of a handler whose checks and assignments gave res, up to the
\* await of its reply: the file, the reply the caller is sent (None when
\* save_all raised before it) and whether a save_all follows the reply.
finish(res, file, save_fails) ==
    IF ~Saves(res)
    THEN [store |-> file, reply |-> <<res.msg>>, then_saves |-> FALSE]
    ELSE IF RepliesFirst(res)
    THEN [store |-> file, reply |-> <<res.msg>>, then_saves |-> TRUE]
    ELSE IF save_fails
    THEN [store |-> write_file(file, save_all(res.T), "raises"), reply |-> None,
          then_saves |-> FALSE]
    ELSE [store |-> write_file(file, save_all(res.T), "ok"), reply |-> <<res.msg>>,
          then_saves |-> FALSE]

\* report_game after the await of its reply: save_all, unless the send
\* raised.
after_reply(T, file, send_fails, save_fails) ==
    IF send_fails THEN file
    ELSE write_file(file, save_all(T), IF save_fails THEN "raises" ELSE "ok")

\* A command handler ran up to its reply: the registry it leaves and the file
\* rewritten from it on the paths that save first.  When its save is still
\* to come, the handler is left at the await (in.awaits), or the reply is
\* delivered before anything else is scheduled and the handler runs to its
\* end.
Command(res, in) ==
    /\ TOURNAMENTS' = res.T
    /\ \E save_fails \in in.save_fails :
           LET f == finish(res, store, save_fails)
           IN  IF f.then_saves /\ in.awaits
               THEN store' = f.store /\ replying' = replying + 1
               ELSE IF f.then_saves
               THEN /\ store' = after_reply(res.T, f.store, FALSE, save_fails)
                    /\ UNCHANGED replying
               ELSE store' = f.store /\ UNCHANGED replying
    /\ UNCHANGED <<now, probe, watchdog, notices>>

\* in: the sets the arguments of the commands are drawn from and the rounds
\* explored, whether save_all can raise, and whether other handlers run while
\* one awaits its reply:
\* [tids, users, hosts, pod_sizes, ranked, pods, rounds, save_fails, awaits,
\*  names].
CreateTournament(in) ==
    \E actor \in Actors(in.hosts), name \in in.names, pod_size \in in.pod_sizes,
       max_rounds \in MaxRoundsArgs, time_limit \in TimeLimits :
        LET res == create_tournament(TOURNAMENTS, actor, name, pod_size, max_rounds, time_limit)
        IN  /\ DOMAIN res.T \subseteq in.tids
            /\ Command(res, in)
            /\ UNCHANGED started

Register(in) ==
    \E user \in in.users, tid \in in.tids :
        /\ Command(register(TOURNAMENTS, user, tid), in)
        /\ UNCHANGED started

StartRound(in) ==
    \E actor \in Actors(in.hosts), tid \in in.tids :
        \E shuffled \in (IF tid \in DOMAIN TOURNAMENTS
                         THEN Shuffles(DOMAIN TOURNAMENTS[tid].players) ELSE {<<>>}) :
            LET res == start_round(TOURNAMENTS, actor, tid, shuffled, now)
            IN  /\ \A t \in DOMAIN res.T : Len(res.T[t].rounds) <= Cardinality(in.rounds)
                /\ Command(res, in)
                /\ started' = IF res.msg = "Round pods."
                               THEN DictSet(started, <<tid, Len(res.T[tid].rounds)>>, now)
                               ELSE started

ReportGame(in) ==
    \E tid \in in.tids, pod_number \in in.pods, pod_players \in in.ranked :
        /\ Command(report_game(TOURNAMENTS, tid, pod_number, pod_players), in)
        /\ UNCHANGED started

Disqualify(in) ==
    \E actor \in Actors(in.users), tid \in in.tids, player \in in.users :
        /\ Command(disqualify(TOURNAMENTS, actor, tid, player), in)
        /\ UNCHANGED started

EndTournament(in) ==
    \E actor \in Actors(in.users), tid \in in.tids :
        /\ Command(end_tournament(TOURNAMENTS, actor, tid), in)
        /\ UNCHANGED started

Standings(in) ==
    \E actor \in Actors(in.hosts), tid \in in.tids :
        /\ Command(standings(TOURNAMENTS, actor, tid), in)
        /\ UNCHANGED started

\* The reply of a report_game was delivered, or its send raised, and the
\* handler runs to its end.
ReportReplied(in) ==
    /\ replying > 0
    /\ replying' = replying - 1
    /\ \E send_fails \in BOOLEAN, save_fails \in in.save_fails :
           store' = after_reply(TOURNAMENTS, store, send_fails, save_fails)
    /\ UNCHANGED <<TOURNAMENTS, now, probe, watchdog, notices, started>>

\* asyncio.sleep (wait_until_ready after a start) is over.
Wake ==
    /\ watchdog.pc = "sleep"
    /\ watchdog' = [watchdog EXCEPT !.pc = "awake"]
    /\ UNCHANGED <<TOURNAMENTS, now, probe, store, notices, started, replying>>

\* The event loop runs the watchdog, which reads the clock and sweeps up to
\* its first await.
SweepBegin ==
    /\ watchdog.pc = "awake"
    /\ LET res == begin_sweep(TOURNAMENTS, now)
       IN  /\ TOURNAMENTS' = res.T
           /\ watchdog' = res.wd
           /\ store' = IF res.saved THEN <<save_all(res.T)>> ELSE store
    /\ UNCHANGED <<now, probe, notices, started, replying>>

\* The watchdog comes back from the awaits of one pod's notifications, which
\* were delivered or failed, and runs up to its next await.
Notify ==
    /\ watchdog.pc = "notify"
    /\ \E dm_fails, channel_fails \in BOOLEAN :
           LET res == notify_pod(TOURNAMENTS, watchdog, notices, dm_fails, channel_fails)
           IN  /\ TOURNAMENTS' = res.T
               /\ watchdog' = res.wd
               /\ notices' = res.notices
               /\ store' = IF res.saved THEN <<save_all(res.T)>> ELSE store
    /\ UNCHANGED <<now, probe, started, replying>>

\* The process ends, with the save of shutdown_save, whole or cut short, or
\* without it, and is started again: the registry is what load_all reads, the
\* watchdog is new and no handler is left.
Restart ==
    /\ \E graceful \in BOOLEAN, outcome \in {"ok", "killed"} :
           store' = IF graceful THEN write_file(store, save_all(TOURNAMENTS), outcome)
                    ELSE store
    /\ TOURNAMENTS' = load_all(store')
    /\ watchdog' = Asleep
    /\ replying' = 0
    /\ UNCHANGED <<now, probe, notices, started>>

\* A minute passes.
Tick ==
    /\ now < SecondsPerMinute * MaxTicks
    /\ now' = now + SecondsPerMinute
    /\ UNCHANGED <<TOURNAMENTS, probe, store, watchdog, notices, started, replying>>

\* The tournament lifecycle over two rounds by the commands: two members,
\* pods of 1 or 2.
Lifecycle ==
    [tids |-> TidSpace, users |-> {1, 2}, hosts |-> {1}, pod_sizes |-> {1, 2},
     ranked |-> {<<1, 2>>, <<2, 1, 1>>}, pods |-> 1..3, rounds |-> {1, 2},
     save_fails |-> {FALSE}, awaits |-> FALSE,
     names |-> Names]

Next ==
    \/ CreateTournament(Lifecycle)
    \/ Register(Lifecycle)
    \/ StartRound(Lifecycle)
    \/ ReportGame(Lifecycle)
    \/ Disqualify(Lifecycle)
    \/ EndTournament(Lifecycle)
    \/ Standings(Lifecycle)

Spec == Init /\ [][Next]_vars

\* One round over four members, pods of 2 or 4, with reports of 2, 3 and 4
\* placements, of members and of non-members of the pod.
Pods ==
    [tids |-> TidSpace, users |-> {1, 2, 3, 4}, hosts |-> {1}, pod_sizes |-> {2, 4},
     ranked |-> {<<1, 2>>, <<3, 1, 2>>, <<4, 3, 2, 1>>}, pods |-> 1..3, rounds |-> {1},
     save_fails |-> {FALSE}, awaits |-> FALSE,
     names |-> Names]

NextPods ==
    \/ CreateTournament(Pods)
    \/ Register(Pods)
    \/ StartRound(Pods)
    \/ ReportGame(Pods)
    \/ Disqualify(Pods)
    \/ EndTournament(Pods)
    \/ Standings(Pods)

SpecPods == Init /\ [][NextPods]_vars

\* One tournament with a round of two players in one pod or in two: the
\* commands, the watchdog sweeping between them as the clock advances, and
\* the process restarting.
Watch ==
    [tids |-> TidSpace, users |-> {1, 2}, hosts |-> {1}, pod_sizes |-> {1, 2},
     ranked |-> {<<1, 2>>}, pods |-> {1, 2}, rounds |-> {1}, save_fails |-> {FALSE}, awaits |-> FALSE,
     names |-> Names]

NextWatchdog ==
    \/ CreateTournament(Watch)
    \/ Register(Watch)
    \/ StartRound(Watch)
    \/ ReportGame(Watch)
    \/ Disqualify(Watch)
    \/ EndTournament(Watch)
    \/ Standings(Watch)
    \/ Wake
    \/ SweepBegin
    \/ Notify
    \/ Tick
    \/ Restart

SpecWatchdog == Init /\ [][NextWatchdog]_vars

\* The event loop keeps running the watchdog task: its sleep ends, it is run,
\* and the awaits of its notifications return.
FairSpecWatchdog ==
    SpecWatchdog /\ WF_vars(Wake) /\ WF_vars(SweepBegin) /\ WF_vars(Notify)

\* Two tournaments with a round of two pods of one player each, created,
\* registered for, started and reported in while the watchdog sweeps over both.
WatchTwo ==
    [Watch EXCEPT !.tids = {<<<<"e", "d", "h">>, 1>>, <<<<"e", "d", "h">>, 2>>},
                  !.pod_sizes = {1}]

NextWatchdogTwo ==
    \/ CreateTournament(WatchTwo)
    \/ Register(WatchTwo)
    \/ StartRound(WatchTwo)
    \/ ReportGame(WatchTwo)
    \/ Wake
    \/ SweepBegin
    \/ Notify
    \/ Tick
    \/ Restart

SpecWatchdogTwo == Init /\ [][NextWatchdogTwo]_vars

\* Two rounds of one pod of two players, by the commands, with the watchdog
\* sweeping between them as the clock advances.
Sweeps ==
    [tids |-> TidSpace, users |-> {1, 2}, hosts |-> {1}, pod_sizes |-> {2},
     ranked |-> {<<1, 2>>}, pods |-> {1}, rounds |-> {1, 2}, save_fails |-> {FALSE}, awaits |-> FALSE,
     names |-> Names]

NextSweeps ==
    \/ CreateTournament(Sweeps)
    \/ Register(Sweeps)
    \/ StartRound(Sweeps)
    \/ ReportGame(Sweeps)
    \/ Disqualify(Sweeps)
    \/ EndTournament(Sweeps)
    \/ Wake
    \/ SweepBegin
    \/ Notify
    \/ Tick
    \/ Restart

SpecSweeps == Init /\ [][NextSweeps]_vars

\* One round of two players in one pod or in two, by the commands running
\* concurrently: a handler at the await of its reply lets the others run;
\* save_all can raise, and the process restart.
Handlers ==
    [Watch EXCEPT !.save_fails = BOOLEAN, !.awaits = TRUE]

NextHandlers ==
    \/ CreateTournament(Handlers)
    \/ Register(Handlers)
    \/ StartRound(Handlers)
    \/ ReportGame(Handlers)
    \/ ReportReplied(Handlers)
    \/ Disqualify(Handlers)
    \/ EndTournament(Handlers)
    \/ Restart

SpecHandlers == Init /\ [][NextHandlers]_vars

\* A name of BaseLen + 1 characters ending in ch.
LongName(ch) == [i \in 1..(BaseLen + 1) |-> IF i <= BaseLen THEN "e" ELSE ch]

\* Names with capitals and punctuation, with an underscore, a name equal to
\* the base of another, and two names that differ after BaseLen characters.
CreateNames ==
    {<<"E", "d", "H", "!">>, <<"e", "d", "h">>, <<"e", "_", "1">>,
     LongName("d"), LongName("h")}

\* Tournaments created one after the other under these names, up to
\* MaxSuffix under one base, with a member registering for them.
Creates ==
    [Watch EXCEPT !.names = CreateNames,
                  !.pod_sizes = {2},
                  !.users = {1},
                  !.tids = {<<base, n>> :
                               base \in {<<"e", "d", "h">>, <<"e", "_", "1">>,
                                         SubSeq(LongName("d"), 1, BaseLen)},
                               n \in 1..MaxSuffix}]

NextCreates ==
    \/ CreateTournament(Creates)
    \/ Register(Creates)

SpecCreates == Init /\ [][NextCreates]_vars

\* Two tournaments side by side, each with one round of one pod of two
\* players, by the commands.
Two ==
    [Sweeps EXCEPT !.tids = {<<<<"e", "d", "h">>, 1>>, <<<<"e", "d", "h">>, 2>>},
                   !.rounds = {1}]

NextTwo ==
    \/ CreateTournament(Two)
    \/ Register(Two)
    \/ StartRound(Two)
    \/ ReportGame(Two)
    \/ Disqualify(Two)
    \/ EndTournament(Two)

SpecTwo == Init /\ [][NextTwo]_vars

\* get_point_allocation called on its own with every pod length tried.
PodLenArgs == (0 - 4)..MaxPodLen

InitAlloc ==
    /\ TOURNAMENTS = EmptyDict
    /\ now = SecondsPerMinute
    /\ store = None /\ watchdog = Asleep /\ notices = EmptyDict /\ started = EmptyDict
    /\ replying = 0
    /\ probe \in {[fn |-> "get_point_allocation", arg |-> n, out |-> None] : n \in PodLenArgs}

Allocate ==
    /\ probe.fn = "get_point_allocation" /\ probe.out = None
    /\ probe' = [probe EXCEPT !.out = <<get_point_allocation(probe.arg)>>]
    /\ UNCHANGED <<TOURNAMENTS, now, store, watchdog, notices, started, replying>>

NextAlloc == Allocate

SpecAlloc == InitAlloc /\ [][NextAlloc]_vars

\* make_pods called on its own: the players 1..n registered, pod_size s, and
\* the order the shuffle left them in.
Rotation(n, k) == [i \in 1..n |-> ((i + k - 1) % n) + 1]

Reversal(n) == [i \in 1..n |-> n + 1 - i]

\* Every order of up to MaxShuffled players; the rotations and the reversal
\* of more.
PlayerOrders(n) ==
    IF n <= MaxShuffled THEN Shuffles(1..n)
    ELSE {Rotation(n, k) : k \in 0..(n - 1)} \cup {Reversal(n)}

PodsArgs ==
    UNION {{[t |-> [Tournament(<<<<"e", "d", "h">>, 1>>, <<"E", "d", "H", "!">>, 1, s, 4, 0)
                       EXCEPT !.players = [pid \in 1..n |-> Player(pid)]],
             shuffled |-> order] :
               s \in 1..MaxPodSize, order \in PlayerOrders(n)} : n \in 1..MaxPodPlayers}

InitMakePods ==
    /\ TOURNAMENTS = EmptyDict
    /\ now = SecondsPerMinute
    /\ store = None /\ watchdog = Asleep /\ notices = EmptyDict /\ started = EmptyDict
    /\ replying = 0
    /\ probe \in {[fn |-> "make_pods", arg |-> a, out |-> None] : a \in PodsArgs}

MakePods ==
    /\ probe.fn = "make_pods" /\ probe.out = None
    /\ probe' = [probe EXCEPT !.out = <<make_pods(probe.arg.t, probe.arg.shuffled)>>]
    /\ UNCHANGED <<TOURNAMENTS, now, store, watchdog, notices, started, replying>>

NextMakePods == MakePods

SpecMakePods == InitMakePods /\ [][NextMakePods]_vars

\* The loop of make_pods run one iteration at a time, for the pod sizes
\* create_tournament stores, 0 and a negative one among them, and the lists
\* of PlayerOrders of the 2 or more players start_round calls it with.
LoopPodSizes == (0 - 1)..MaxPodSize

InitPodsLoop ==
    /\ TOURNAMENTS = EmptyDict
    /\ now = SecondsPerMinute
    /\ store = None /\ watchdog = Asleep /\ notices = EmptyDict /\ started = EmptyDict
    /\ replying = 0
    /\ probe \in UNION {{[fn |-> "make_pods_loop",
                           arg |-> [pod_size |-> s, shuffled |-> order],
                           out |-> [players |-> order, pods |-> <<>>, pod_number |-> 1]] :
                             s \in LoopPodSizes, order \in PlayerOrders(n)} :
                                n \in 2..MaxPodPlayers}

\* while players: one more iteration, as long as no more pods were made than
\* there can be players.
MakePodsStep ==
    /\ probe.fn = "make_pods_loop"
    /\ probe.out.players # <<>>
    /\ Len(probe.out.pods) <= MaxPodPlayers
    /\ probe' = [probe EXCEPT !.out = make_pods_step(probe.arg.pod_size, @)]
    /\ UNCHANGED <<TOURNAMENTS, now, store, watchdog, notices, started, replying>>

NextPodsLoop == MakePodsStep

SpecPodsLoop == InitPodsLoop /\ [][NextPodsLoop]_vars

\* ================================================================ claims
Reported == {"Pod results recorded. All pods reported!",
             "Pod results recorded. Waiting for other pods."}

\* The rounds of tournament tid that are active.
ActiveRounds(tid) ==
    {i \in DOMAIN TOURNAMENTS[tid].rounds : TOURNAMENTS[tid].rounds[i].active}

\* ---------------------------------------------------------------- C1
\* C1: in every reachable state each tournament has at most one round with
\* active = TRUE.
AtMostOneActiveRound ==
    \A tid \in DOMAIN TOURNAMENTS : Cardinality(ActiveRounds(tid)) <= 1

\* A second round is running after the first one closed.
AtMostOneActiveRound_Witness ==
    \E tid \in DOMAIN TOURNAMENTS :
        /\ Len(TOURNAMENTS[tid].rounds) = 2
        /\ ActiveRounds(tid) = {2}

\* ---------------------------------------------------------------- C2
\* C2: after every operation, a round is inactive if and only if every pod in
\* it has results_reported = TRUE.
RoundInactiveIffAllReported ==
    \A tid \in DOMAIN TOURNAMENTS : \A i \in DOMAIN TOURNAMENTS[tid].rounds :
        LET r == TOURNAMENTS[tid].rounds[i]
        IN  (~r.active) <=> (\A j \in DOMAIN r.games : r.games[j].results_reported)

\* ---------------------------------------------------------------- C3
\* The pod of the latest round of t with the given number, as report_game
\* finds it; <<>> when the round has none.
PodOf(t, pod_number) ==
    LET r == t.rounds[Len(t.rounds)]
        S == {j \in DOMAIN r.games : r.games[j].pod_number = pod_number}
    IN  IF S = {} THEN <<>>
        ELSE <<r.games[CHOOSE j \in S : \A k \in S : j <= k]>>

\* C3: reporting a pod that already has results_reported = TRUE, while its
\* round is still active, is answered "This pod already reported." and leaves
\* the registry (the pod's results, every player's points and matches_played)
\* as it was.
SecondReportRejected ==
    \A tid \in DOMAIN TOURNAMENTS : \A pod_number \in Pods.pods :
        LET t == TOURNAMENTS[tid]
        IN  (/\ t.rounds # <<>>
             /\ t.rounds[Len(t.rounds)].active
             /\ PodOf(t, pod_number) # <<>>
             /\ PodOf(t, pod_number)[1].results_reported)
            => \A pod_players \in RankedLists(Pods.users) :
                   report_game(TOURNAMENTS, tid, pod_number, pod_players)
                       = Result(TOURNAMENTS, "This pod already reported.")

\* A pod was reported with placements and its round is still waiting for
\* another pod, so a second report of it can arrive.
SecondReportRejected_Witness ==
    \E tid \in DOMAIN TOURNAMENTS : \E pod_number \in Pods.pods :
        LET t == TOURNAMENTS[tid]
        IN  /\ t.rounds # <<>>
            /\ t.rounds[Len(t.rounds)].active
            /\ PodOf(t, pod_number) # <<>>
            /\ PodOf(t, pod_number)[1].results_reported
            /\ PodOf(t, pod_number)[1].results # EmptyDict
            /\ report_game(TOURNAMENTS, tid, pod_number, <<1, 2>>).msg = "This pod already reported."

\* ---------------------------------------------------------------- C4
\* C4: every key of a pod's results was a member of that pod at the moment
\* the result was reported: a step that fills a pod's results fills it with
\* members the pod had before the step.
ResultsOnlyForPodMembers ==
    [][\A tid \in DOMAIN TOURNAMENTS : \A i \in DOMAIN TOURNAMENTS[tid].rounds :
         \A j \in DOMAIN TOURNAMENTS[tid].rounds[i].games :
            LET g == TOURNAMENTS[tid].rounds[i].games[j]
                g2 == TOURNAMENTS'[tid].rounds[i].games[j]
            IN  g2.results # g.results => DOMAIN g2.results \subseteq Range(g.players)]_vars

\* ---------------------------------------------------------------- C5
\* Sequences of 2 to 4 distinct members of U.
DistinctRanked(U) ==
    {l \in RankedLists(U) : \A a, b \in DOMAIN l : l[a] = l[b] => a = b}

\* The place of p in the list l of distinct members.
PlaceOf(l, p) == CHOOSE a \in DOMAIN l : l[a] = p

\* C5: a successful report of k (2 to 4) distinct registered players gives the
\* pod the results {i-th player: i-th entry of get_point_allocation(k)} and
\* results_reported = TRUE, adds that entry to the i-th player's points and 1
\* to that player's matches_played, and leaves the points and matches_played
\* of every other player as they were.
ReportAwardsPlacements ==
    \A tid \in DOMAIN TOURNAMENTS : \A pod_number \in Pods.pods :
        \A pod_players \in DistinctRanked(DOMAIN TOURNAMENTS[tid].players) :
            LET t == TOURNAMENTS[tid]
                res == report_game(TOURNAMENTS, tid, pod_number, pod_players)
                pts == get_point_allocation(Len(pod_players))
            IN  res.msg \in Reported =>
                    LET t2 == res.T[tid]
                        g2 == PodOf(t2, pod_number)[1]
                    IN  /\ g2.results_reported
                        /\ DOMAIN g2.results = Range(pod_players)
                        /\ \A a \in DOMAIN pod_players : g2.results[pod_players[a]] = pts[a]
                        /\ DOMAIN t2.players = DOMAIN t.players
                        /\ \A p \in DOMAIN t.players :
                              IF p \in Range(pod_players)
                              THEN /\ t2.players[p].points
                                        = t.players[p].points + pts[PlaceOf(pod_players, p)]
                                   /\ t2.players[p].matches_played
                                        = t.players[p].matches_played + 1
                              ELSE t2.players[p] = t.players[p]

\* A pod was reported with the four placements 4, 3, 2, 1 and the four
\* players hold exactly those points after one match each.
ReportAwardsPlacements_Witness ==
    \E tid \in DOMAIN TOURNAMENTS :
        LET t == TOURNAMENTS[tid]
        IN  /\ t.rounds # <<>>
            /\ PodOf(t, 1) # <<>>
            /\ PodOf(t, 1)[1].results = [p \in {1, 2, 3, 4} |-> p]
            /\ DOMAIN t.players = {1, 2, 3, 4}
            /\ \A p \in DOMAIN t.players :
                  t.players[p].points = p /\ t.players[p].matches_played = 1

\* ---------------------------------------------------------------- C6
StrictlyDescending(v) == \A a \in 1..(Len(v) - 1) : v[a] > v[a + 1]

DisqualifyRemovesExactlyPlayer ==
    \A tid \in DOMAIN TOURNAMENTS : \A actor \in Actors(Pods.users) : \A p \in Pods.users :
        LET t == TOURNAMENTS[tid]
            res == disqualify(TOURNAMENTS, actor, tid, p)
            t2 == res.T[tid]
            Others(x) == x # p
        IN  res.msg = "disqualified." =>
                /\ DOMAIN res.T = DOMAIN TOURNAMENTS
                /\ DOMAIN t2.players = DOMAIN t.players \ {p}
                /\ \A q \in DOMAIN t2.players : t2.players[q] = t.players[q]
                /\ Len(t2.rounds) = Len(t.rounds)
                /\ \A i \in DOMAIN t.rounds :
                      /\ Len(t2.rounds[i].games) = Len(t.rounds[i].games)
                      /\ \A j \in DOMAIN t.rounds[i].games :
                            LET g == t.rounds[i].games[j]
                                g2 == t2.rounds[i].games[j]
                            IN  /\ g2.pod_number = g.pod_number
                                /\ g2.results = g.results
                                /\ g2.players = SelectSeq(g.players, Others)
                                /\ g2.results_reported =
                                      (\/ g.results_reported
                                       \/ p \in Range(g.players) /\ Len(g2.players) < 2)

\* A disqualification has left one pod with a single member, closed with no
\* results, and another pod of the same round with its two members, open.
DisqualifyRemovesExactlyPlayer_Witness ==
    \E tid \in DOMAIN TOURNAMENTS : \E i \in DOMAIN TOURNAMENTS[tid].rounds :
        LET gs == TOURNAMENTS[tid].rounds[i].games
        IN  \E j, k \in DOMAIN gs :
                /\ Len(gs[j].players) = 1 /\ gs[j].results_reported /\ gs[j].results = EmptyDict
                /\ Len(gs[k].players) = 2 /\ ~gs[k].results_reported
                /\ Cardinality(DOMAIN TOURNAMENTS[tid].players) = 3

\* ---------------------------------------------------------------- C8
\* C8: when disqualify has forced pods to reported and every pod of every
\* round is reported, the round is closed when disqualify returns: on a
\* tournament that is not finished and has at least 2 players, start_round by
\* an organizer is not answered "A round is still active."
NextRoundAfterForcedCompletion ==
    \A tid \in DOMAIN TOURNAMENTS :
        LET t == TOURNAMENTS[tid]
            organizer == [id |-> t.host, administrator |-> TRUE, organizer_role |-> TRUE]
        IN  (/\ ~t.finished
             /\ Cardinality(DOMAIN t.players) >= 2
             /\ \A i \in DOMAIN t.rounds : AllReported(t.rounds[i].games))
            => \A shuffled \in Shuffles(DOMAIN t.players) :
                   start_round(TOURNAMENTS, organizer, tid, shuffled, now).msg
                       # "A round is still active. Finish it first."

\* ---------------------------------------------------------------- C9
\* C9: a pod with results_reported = TRUE keeps results_reported = TRUE and
\* its results mapping through every later step.
ReportedPodIsFrozen ==
    [][\A tid \in DOMAIN TOURNAMENTS : \A i \in DOMAIN TOURNAMENTS[tid].rounds :
         \A j \in DOMAIN TOURNAMENTS[tid].rounds[i].games :
            LET g == TOURNAMENTS[tid].rounds[i].games[j]
            IN  g.results_reported =>
                    /\ tid \in DOMAIN TOURNAMENTS'
                    /\ i \in DOMAIN TOURNAMENTS'[tid].rounds
                    /\ j \in DOMAIN TOURNAMENTS'[tid].rounds[i].games
                    /\ TOURNAMENTS'[tid].rounds[i].games[j].results_reported
                    /\ TOURNAMENTS'[tid].rounds[i].games[j].results = g.results]_vars

\* A pod reported with placements in round 1 and a pod closed by a
\* disqualification in round 2 are both still as they were closed.
ReportedPodIsFrozen_Witness ==
    \E tid \in DOMAIN TOURNAMENTS :
        LET t == TOURNAMENTS[tid]
        IN  /\ Len(t.rounds) = 2
            /\ \E j \in DOMAIN t.rounds[1].games :
                   t.rounds[1].games[j].results_reported /\ t.rounds[1].games[j].results # EmptyDict
            /\ \E j \in DOMAIN t.rounds[2].games :
                   t.rounds[2].games[j].results_reported /\ t.rounds[2].games[j].results = EmptyDict

\* ---------------------------------------------------------------- C10
\* On a finished tournament register and start_round answer "Tournament
\* already finished." (start_round once the organizer check has let the
\* caller in) and change nothing.
FinishedRejects ==
    \A tid \in DOMAIN TOURNAMENTS :
        TOURNAMENTS[tid].finished =>
            /\ \A user \in Lifecycle.users :
                   register(TOURNAMENTS, user, tid)
                       = Result(TOURNAMENTS, "Tournament already finished.")
            /\ \A actor \in Actors(Lifecycle.users) :
                 \A shuffled \in Shuffles(DOMAIN TOURNAMENTS[tid].players) :
                   start_round(TOURNAMENTS, actor, tid, shuffled, now)
                       = Result(TOURNAMENTS,
                                IF is_tournament_organizer(actor)
                                THEN "Tournament already finished." ELSE NoRole)

\* A finished tournament stays finished and gains no player and no round.
FinishedStays ==
    \A tid \in DOMAIN TOURNAMENTS :
        TOURNAMENTS[tid].finished =>
            /\ tid \in DOMAIN TOURNAMENTS'
            /\ TOURNAMENTS'[tid].finished
            /\ DOMAIN TOURNAMENTS'[tid].players \subseteq DOMAIN TOURNAMENTS[tid].players
            /\ Len(TOURNAMENTS'[tid].rounds) = Len(TOURNAMENTS[tid].rounds)

\* C10: once end_tournament has succeeded, finished stays TRUE in every later
\* state, every register fails with already-finished without adding a player
\* and every start_round fails with already-finished without appending a round.
FinishedIsFinal == [](FinishedRejects) /\ [][FinishedStays]_vars

\* A finished tournament on which start_round would otherwise succeed (two
\* players, the one round played is closed); register is answered
\* "Tournament already finished." there.
FinishedIsFinal_Witness ==
    \E tid \in DOMAIN TOURNAMENTS :
        LET t == TOURNAMENTS[tid]
        IN  /\ t.finished
            /\ DOMAIN t.players = {1, 2}
            /\ ~HasActiveRound(t)
            /\ Len(t.rounds) = 1
            /\ register(TOURNAMENTS, 1, tid).msg = "Tournament already finished."

\* ---------------------------------------------------------------- C11
\* C11: a successful end_tournament changes only the finished flag of the
\* target tournament: its players, its rounds (each round's active, start_time
\* and notified_timeout, every pod's members, results_reported and results)
\* and every other field are as before, so a round in progress stays active.
EndTournamentOnlySetsFinished ==
    \A tid \in DOMAIN TOURNAMENTS : \A actor \in Actors(Lifecycle.users) :
        LET t == TOURNAMENTS[tid]
            res == end_tournament(TOURNAMENTS, actor, tid)
        IN  res.msg = "Tournament is now finished." =>
                /\ DOMAIN res.T = DOMAIN TOURNAMENTS
                /\ \A other \in DOMAIN TOURNAMENTS \ {tid} : res.T[other] = TOURNAMENTS[other]
                /\ res.T[tid].finished
                /\ res.T[tid].players = t.players
                /\ res.T[tid].rounds = t.rounds
                /\ \A f \in {"id", "name", "host", "pod_size", "max_rounds", "time_limit"} :
                       res.T[tid][f] = t[f]

\* A tournament was ended while its round was in progress: the round is still
\* active, holds its start time and the timeout flag the watchdog set, and one
\* of its pods is still to report.
EndTournamentOnlySetsFinished_Witness ==
    \E tid \in DOMAIN TOURNAMENTS :
        LET t == TOURNAMENTS[tid]
        IN  /\ t.finished
            /\ t.rounds # <<>>
            /\ LET r == t.rounds[Len(t.rounds)]
               IN  /\ r.active /\ r.notified_timeout /\ r.start_time # None
                   /\ \E j \in DOMAIN r.games : ~r.games[j].results_reported
                   /\ \E j \in DOMAIN r.games : r.games[j].results_reported

\* ---------------------------------------------------------------- C12
\* C12: once a tournament is finished no step changes the points or the
\* matches_played of any of its players.
FinishedPointsFrozen ==
    [][\A tid \in DOMAIN TOURNAMENTS :
         TOURNAMENTS[tid].finished =>
             \A p \in DOMAIN TOURNAMENTS[tid].players \cap DOMAIN TOURNAMENTS'[tid].players :
                 /\ TOURNAMENTS'[tid].players[p].points = TOURNAMENTS[tid].players[p].points
                 /\ TOURNAMENTS'[tid].players[p].matches_played
                        = TOURNAMENTS[tid].players[p].matches_played]_vars

\* ---------------------------------------------------------------- C13
\* C13: standings lists every registered player exactly once, ordered by
\* points descending, then matches_played ascending, then name ascending,
\* and leaves the registry as it was.
StandingsOrdered ==
    \A tid \in DOMAIN TOURNAMENTS : \A actor \in Actors(Pods.hosts) :
        LET t == TOURNAMENTS[tid]
            res == standings(TOURNAMENTS, actor, tid)
        IN  res.msg = "Standings." =>
                LET out == res.lines
                IN  /\ res.T = TOURNAMENTS
                    /\ Len(out) = Cardinality(DOMAIN t.players)
                    /\ {out[i].id : i \in DOMAIN out} = DOMAIN t.players
                    /\ \A i \in DOMAIN out :
                          /\ out[i].points = t.players[out[i].id].points
                          /\ out[i].matches_played = t.players[out[i].id].matches_played
                    /\ \A i, j \in DOMAIN out : i < j =>
                          \/ out[i].points > out[j].points
                          \/ /\ out[i].points = out[j].points
                             /\ out[i].matches_played < out[j].matches_played
                          \/ /\ out[i].points = out[j].points
                             /\ out[i].matches_played = out[j].matches_played
                             /\ NameLess(t.players[out[i].id].name, t.players[out[j].id].name)

\* Players 3 and 2 hold 4 points each, 3 after one match and 2 after two, and
\* player 4 holds none after no match: the standings give 1, 3, 2, 4, the
\* fewer matches first among equal points and the fewest points last.
StandingsOrdered_Witness ==
    \E tid \in DOMAIN TOURNAMENTS :
        LET t == TOURNAMENTS[tid]
            organizer == [id |-> t.host, administrator |-> FALSE, organizer_role |-> TRUE]
        IN  /\ DOMAIN t.players = {1, 2, 3, 4}
            /\ t.players[3].points = 4 /\ t.players[3].matches_played = 1
            /\ t.players[2].points = 4 /\ t.players[2].matches_played = 2
            /\ t.players[4].points = 0 /\ t.players[4].matches_played = 0
            /\ [i \in 1..4 |-> standings(TOURNAMENTS, organizer, tid).lines[i].id] = <<1, 3, 2, 4>>

\* ---------------------------------------------------------------- C14
\* C14: for n >= 1 registered players and pod_size s >= 1, whatever order the
\* shuffle leaves, make_pods returns ceil(n/s) pods numbered 1, 2, ... in
\* order, each of exactly s members except the last, which has between 1 and
\* s, and every registered player is a member of exactly one pod, once.
MakePodsPartition ==
    (probe.fn = "make_pods" /\ probe.out # None) =>
        LET t == probe.arg.t
            pods == probe.out[1]
            n == Cardinality(DOMAIN t.players)
            s == t.pod_size
            k == (n + s - 1) \div s
            Seats(pid) == {<<i, j>> \in (DOMAIN pods) \X (1..n) :
                              j \in DOMAIN pods[i].players /\ pods[i].players[j] = pid}
        IN  /\ Len(pods) = k
            /\ \A i \in 1..k : pods[i].pod_number = i
            /\ \A i \in 1..(k - 1) : Len(pods[i].players) = s
            /\ Len(pods[k].players) \in 1..s
            /\ \A i \in 1..k : Range(pods[i].players) \subseteq DOMAIN t.players
            /\ \A pid \in DOMAIN t.players : Cardinality(Seats(pid)) = 1

\* Nine players with pod_size 4: pods 1, 2, 3 of sizes 4, 4, 1.
MakePodsPartition_Witness ==
    /\ probe.fn = "make_pods" /\ probe.out # None
    /\ Cardinality(DOMAIN probe.arg.t.players) = 9 /\ probe.arg.t.pod_size = 4
    /\ [i \in DOMAIN probe.out[1] |-> probe.out[1][i].pod_number] = <<1, 2, 3>>
    /\ [i \in DOMAIN probe.out[1] |-> Len(probe.out[1][i].players)] = <<4, 4, 1>>

\* ---------------------------------------------------------------- C15
\* C15: saving the registry with save_all and loading the file with load_all
\* gives back the registry: the same players, rounds (number, active,
\* start_time, notified_timeout), pods (members, results_reported, results
\* under the same keys) and tournament fields.
SaveLoadRoundTrip == load_all(<<save_all(TOURNAMENTS)>>) = TOURNAMENTS

\* ---------------------------------------------------------------- C16
\* The attempts at a notification for pod pod_number of round number of tid.
Attempts(tid, number, pod_number) ==
    {a \in DOMAIN notices :
        a.tid = tid /\ a.number = number /\ a.pod_number = pod_number}

\* C16: over any number of sweeps the notification cycle of a round is
\* emitted at most once: no direct message and no channel message is attempted
\* twice for a pod of a round, and a sweep that begins stops to notify only at
\* a round whose notified_timeout was false, which it sets, with every pod of
\* it not yet reported to notify.
TimeoutNotifiedOnce ==
    /\ \A a \in DOMAIN notices : notices[a] = 1
    /\ watchdog.pc = "awake" =>
           LET res == begin_sweep(TOURNAMENTS, now)
           IN  res.wd.pc = "notify" =>
                   LET tid == Head(res.wd.todo)
                       i == res.wd.next
                       r == TOURNAMENTS[tid].rounds[i]
                   IN  /\ ~r.notified_timeout
                       /\ r.active /\ r.start_time # None
                       /\ now - r.start_time[1] > SecondsPerMinute * TOURNAMENTS[tid].time_limit
                       /\ res.T[tid].rounds[i].notified_timeout
                       /\ Range(res.wd.pods)
                              = {r.games[j].pod_number : j \in
                                    {k \in DOMAIN r.games : ~r.games[k].results_reported}}

\* A sweep has flagged a round and attempted both notifications of its pod 1;
\* the round is still active and past its limit and the pod still unreported,
\* and the sweep that begins now goes back to sleep without a notification.
TimeoutNotifiedOnce_Witness ==
    \E tid \in DOMAIN TOURNAMENTS : \E i \in DOMAIN TOURNAMENTS[tid].rounds :
        LET t == TOURNAMENTS[tid]
            r == t.rounds[i]
        IN  /\ watchdog.pc = "awake"
            /\ r.active /\ r.notified_timeout /\ r.start_time # None
            /\ now - r.start_time[1] > SecondsPerMinute * t.time_limit
            /\ \E j \in DOMAIN r.games :
                   /\ ~r.games[j].results_reported
                   /\ {a.kind : a \in Attempts(tid, r.number, r.games[j].pod_number)}
                          = {"dm", "channel"}
            /\ begin_sweep(TOURNAMENTS, now).wd = Asleep
            /\ begin_sweep(TOURNAMENTS, now).T = TOURNAMENTS

\* ---------------------------------------------------------------- C17
\* C17: a round whose notified_timeout is true has it true after every step:
\* no operation clears it, and it is still true when the registry has been
\* saved and loaded again.
NotifiedTimeoutSticky ==
    [][\A tid \in DOMAIN TOURNAMENTS : \A i \in DOMAIN TOURNAMENTS[tid].rounds :
         TOURNAMENTS[tid].rounds[i].notified_timeout =>
             /\ tid \in DOMAIN TOURNAMENTS'
             /\ i \in DOMAIN TOURNAMENTS'[tid].rounds
             /\ TOURNAMENTS'[tid].rounds[i].notified_timeout]_vars

\* ---------------------------------------------------------------- C18
\* C18: whenever the watchdog is at the notifications of a round, the file
\* already records notified_timeout = true for that round: the registry
\* load_all reads from it has the flag set.
FlagDurableBeforeNotice ==
    watchdog.pc = "notify" =>
        LET tid == Head(watchdog.todo)
            stored == load_all(store)
        IN  /\ tid \in DOMAIN stored
            /\ watchdog.next \in DOMAIN stored[tid].rounds
            /\ stored[tid].rounds[watchdog.next].notified_timeout

\* ---------------------------------------------------------------- C19
\* Round i of tid is active with an unreported pod, and more than
\* time_limit * 60 seconds have passed since start_round started it.
OverdueUnreported(tid, i) ==
    /\ tid \in DOMAIN TOURNAMENTS
    /\ i \in DOMAIN TOURNAMENTS[tid].rounds
    /\ LET t == TOURNAMENTS[tid]
           r == t.rounds[i]
       IN  /\ r.active
           /\ ~AllReported(r.games)
           /\ <<tid, r.number>> \in DOMAIN started
           /\ now - started[<<tid, r.number>>] > SecondsPerMinute * t.time_limit

\* Round i of tid is flagged, or is no longer one the watchdog has to flag.
FlaggedOrOver(tid, i) ==
    /\ tid \in DOMAIN TOURNAMENTS
    /\ i \in DOMAIN TOURNAMENTS[tid].rounds
    /\ LET r == TOURNAMENTS[tid].rounds[i]
       IN  r.notified_timeout \/ ~r.active \/ AllReported(r.games)

\* C19: while the watchdog keeps running, every active round past its time
\* limit with an unreported pod is eventually flagged notified_timeout, unless
\* it stops being active or all its pods get reported first.
OverdueEventuallyFlagged ==
    \A tid \in Watch.tids : \A i \in Watch.rounds :
        [](OverdueUnreported(tid, i) => <>FlaggedOrOver(tid, i))

\* ---------------------------------------------------------------- C20
\* The registry without the notified_timeout flags: the game state.
GameState(T) ==
    [tid \in DOMAIN T |->
        [T[tid] EXCEPT !.rounds =
            [i \in DOMAIN T[tid].rounds |->
                [T[tid].rounds[i] EXCEPT !.notified_timeout = FALSE]]]]

\* The rounds the sweep at position wd has still to check after the one in
\* hand, as pairs of tournament id and index.
RoundsAhead(T, wd) ==
    {<<Head(wd.todo), i>> : i \in {k \in DOMAIN T[Head(wd.todo)].rounds : k > wd.next}}
        \cup UNION {{<<wd.todo[j], i>> : i \in DOMAIN T[wd.todo[j]].rounds} :
                        j \in (DOMAIN wd.todo) \ {1}}

\* C20: when the watchdog is at the notifications of a pod, whichever of the
\* direct message and the channel message fails, the sweep goes on as when
\* none fails: both are attempted, the game state is unchanged and the round
\* in hand stays flagged, the remaining pods of the round stay queued, and
\* after the last pod the remaining rounds and tournaments are checked, so
\* that the sweep ends only with no overdue round left ahead.
DeliveryFailureSuppressed ==
    watchdog.pc = "notify" =>
        \A dm_fails, channel_fails \in BOOLEAN :
            LET res == notify_pod(TOURNAMENTS, watchdog, notices, dm_fails, channel_fails)
                tid == Head(watchdog.todo)
                rest == Tail(watchdog.pods)
            IN  /\ res = notify_pod(TOURNAMENTS, watchdog, notices, FALSE, FALSE)
                /\ {Notice(TOURNAMENTS, watchdog, "dm"),
                    Notice(TOURNAMENTS, watchdog, "channel")} \subseteq DOMAIN res.notices
                /\ GameState(res.T) = GameState(TOURNAMENTS)
                /\ res.T[tid].rounds[watchdog.next].notified_timeout
                /\ rest # <<>> => res.wd = [watchdog EXCEPT !.pods = rest]
                /\ rest = <<>> => res.wd.pc \in {"sleep", "notify"}
                /\ res.wd.pc = "sleep" =>
                       \A p \in RoundsAhead(TOURNAMENTS, watchdog) :
                           ~Overdue(res.T[p[1]], res.T[p[1]].rounds[p[2]], watchdog.time)

\* The watchdog is at the notifications of the first of two overdue pods of a
\* round, with a second tournament that has an overdue round still to check:
\* with both deliveries failing the second pod is next, and after it the sweep
\* stops at the round of the second tournament.
DeliveryFailureSuppressed_Witness ==
    /\ watchdog.pc = "notify"
    /\ Len(watchdog.pods) = 2
    /\ Len(watchdog.todo) = 2
    /\ LET res == notify_pod(TOURNAMENTS, watchdog, notices, TRUE, TRUE)
           last == notify_pod(res.T, res.wd, res.notices, TRUE, TRUE)
       IN  /\ res.wd.pc = "notify" /\ Len(res.wd.pods) = 1
           /\ last.wd.pc = "notify" /\ Len(last.wd.todo) = 1
           /\ last.T[Head(last.wd.todo)].rounds[last.wd.next].notified_timeout
           /\ ~TOURNAMENTS[Head(last.wd.todo)].rounds[last.wd.next].notified_timeout

\* ---------------------------------------------------------------- C21
\* What the mutating handlers can yield in the present state, over the
\* arguments of the profile in.
MutatingResults(in) ==
    {create_tournament(TOURNAMENTS, actor, name, pod_size, max_rounds, time_limit) :
        actor \in Actors(in.hosts), name \in in.names, pod_size \in in.pod_sizes,
        max_rounds \in MaxRoundsArgs, time_limit \in TimeLimits}
    \cup {register(TOURNAMENTS, user, tid) : user \in in.users, tid \in in.tids}
    \cup UNION {{start_round(TOURNAMENTS, actor, tid, shuffled, now) :
                    actor \in Actors(in.hosts),
                    shuffled \in (IF tid \in DOMAIN TOURNAMENTS
                                  THEN Shuffles(DOMAIN TOURNAMENTS[tid].players)
                                  ELSE {<<>>})} : tid \in in.tids}
    \cup {report_game(TOURNAMENTS, tid, pod_number, pod_players) :
            tid \in in.tids, pod_number \in in.pods, pod_players \in in.ranked}
    \cup {disqualify(TOURNAMENTS, actor, tid, player) :
            actor \in Actors(in.users), tid \in in.tids, player \in in.users}
    \cup {end_tournament(TOURNAMENTS, actor, tid) :
            actor \in Actors(in.users), tid \in in.tids}

\* C21: whenever a mutating handler (create, register, start_round,
\* report_game, disqualify, end_tournament) reaches its save_all and the save
\* raises, the caller is sent no reply of success: no reply was sent before
\* the save and none is sent after it.
NoSuccessReplyWhenSaveFails ==
    \A res \in MutatingResults(Handlers) :
        Saves(res) => finish(res, store, TRUE).reply = None

\* ---------------------------------------------------------------- C22
\* C22: whenever a mutating handler reaches the await of its reply, with
\* save_all working, the file already holds the registry it has made: the
\* save has run before the send, so neither a failed send nor the end of the
\* process during the await leaves a reported result out of the file.
PersistedBeforeReply ==
    \A res \in MutatingResults(Handlers) :
        Saves(res) => finish(res, store, FALSE).store = <<save_all(res.T)>>

\* ---------------------------------------------------------------- C23
\* C23: tournaments.json always holds a whole serialization of the registry
\* of one instant: a save_all that is under way, however it ends, leaves the
\* file as it was or replaces it by the whole new object, and every step that
\* changes the file makes it the object save_all builds from the registry as
\* it is before or after that step.
AtomicStoreReplace ==
    [][/\ \A outcome \in {"ok", "raises", "killed"} :
              write_file(store, save_all(TOURNAMENTS), outcome)
                  \in {store, <<save_all(TOURNAMENTS)>>}
       /\ store' \in {store, <<save_all(TOURNAMENTS)>>, <<save_all(TOURNAMENTS')>>}]_vars

\* A save_all of register did not get through: the registry has a player the
\* file does not have, and the file is the whole object of an earlier
\* registry, which load_all reads and save_all writes back as it is.
AtomicStoreReplace_Witness ==
    /\ store # None
    /\ store = <<save_all(load_all(store))>>
    /\ \E tid \in (DOMAIN TOURNAMENTS) \cap (DOMAIN store[1]) :
           \E pid \in DOMAIN TOURNAMENTS[tid].players :
               str(pid) \notin DOMAIN store[1][tid].players

\* ---------------------------------------------------------------- C24
\* What a second report of a reported pod of the latest round is answered
\* while a report_game is at its await, with the answer expected when the
\* round is no longer active.
SecondSubmission(ended) ==
    \A tid \in DOMAIN TOURNAMENTS : \A pod_number \in Handlers.pods :
        LET t == TOURNAMENTS[tid]
        IN  (/\ t.rounds # <<>>
             /\ PodOf(t, pod_number) # <<>>
             /\ PodOf(t, pod_number)[1].results_reported)
            => \A pod_players \in RankedLists(Handlers.users) :
                   report_game(TOURNAMENTS, tid, pod_number, pod_players)
                       = Result(TOURNAMENTS,
                                IF t.rounds[Len(t.rounds)].active
                                THEN "This pod already reported." ELSE ended)

\* A disqualify that runs while a report_game is at its await leaves the
\* player neither in players nor in a pod.
DisqualifyWhileReporting ==
    \A actor \in Actors(Handlers.users), tid \in Handlers.tids, player \in Handlers.users :
        LET res == disqualify(TOURNAMENTS, actor, tid, player)
        IN  res.msg = "disqualified." =>
                /\ player \notin DOMAIN res.T[tid].players
                /\ \A i \in DOMAIN res.T[tid].rounds :
                       \A j \in DOMAIN res.T[tid].rounds[i].games :
                           player \notin Range(res.T[tid].rounds[i].games[j].players)

\* C24 as claimed: while a report_game handler is at its await, a second
\* report of a pod of the latest round that is reported is answered "This pod
\* already reported." and changes nothing, so that the points and matches of
\* a pod are given once; and a disqualify leaves the player in no pod and not
\* in players.
ConcurrentReportOnce ==
    replying > 0 =>
        SecondSubmission("This pod already reported.") /\ DisqualifyWhileReporting

\* C24 amended: the second report changes nothing and is answered "This pod
\* already reported." while the round is active and "The current round has
\* ended." when the first report closed it.
ConcurrentReportRejected ==
    replying > 0 =>
        SecondSubmission("The current round has ended.") /\ DisqualifyWhileReporting

\* A report_game that recorded pod 1 is at its await with pod 2 not yet
\* reported: a second report of pod 1 finds the round active and the pod
\* reported, and a disqualify of a player can run.
ConcurrentReportRejected_Witness ==
    /\ replying = 1
    /\ \E tid \in DOMAIN TOURNAMENTS :
           LET t == TOURNAMENTS[tid]
           IN  /\ t.rounds # <<>>
               /\ t.rounds[Len(t.rounds)].active
               /\ PodOf(t, 1) # <<>>
               /\ PodOf(t, 1)[1].results # EmptyDict
               /\ PodOf(t, 2) # <<>>
               /\ ~PodOf(t, 2)[1].results_reported
               /\ report_game(TOURNAMENTS, tid, 1, <<2, 1>>).msg = "This pod already reported."
               /\ \E actor \in Actors(Handlers.users) :
                      disqualify(TOURNAMENTS, actor, tid, 2).msg = "disqualified."

\* ---------------------------------------------------------------- C25
\* C25: for an actor who is neither the host of the tournament nor an
\* administrator, disqualify and end_tournament reply that the actor may not
\* (the role message of the decorator or the host-or-admin message of the
\* handler) and leave the registry as it was.
OnlyHostOrAdminChanges ==
    \A tid \in DOMAIN TOURNAMENTS : \A actor \in Actors(Lifecycle.users) :
        (actor.id # TOURNAMENTS[tid].host /\ ~actor.administrator) =>
            /\ \A player \in Lifecycle.users :
                   disqualify(TOURNAMENTS, actor, tid, player)
                       \in {Result(TOURNAMENTS, NoRole),
                            Result(TOURNAMENTS,
                                   "Only the host or an admin can disqualify a player.")}
            /\ end_tournament(TOURNAMENTS, actor, tid)
                   \in {Result(TOURNAMENTS, NoRole),
                        Result(TOURNAMENTS, "Only host or admin can end the tournament.")}

\* A member with the Tournament Organizer role who is not the host and not
\* an administrator asks to disqualify a registered player and to end a
\* tournament that is not finished: both are refused by the handler.
OnlyHostOrAdminChanges_Witness ==
    \E tid \in DOMAIN TOURNAMENTS :
        LET t == TOURNAMENTS[tid]
            actor == [id |-> 2, administrator |-> FALSE, organizer_role |-> TRUE]
        IN  /\ t.host = 1 /\ ~t.finished
            /\ 1 \in DOMAIN t.players
            /\ t.rounds # <<>>
            /\ disqualify(TOURNAMENTS, actor, tid, 1).msg
                   = "Only the host or an admin can disqualify a player."
            /\ end_tournament(TOURNAMENTS, actor, tid).msg
                   = "Only host or admin can end the tournament."

\* ---------------------------------------------------------------- C26
\* C26: the host of a tournament, with or without the administrator
\* permission and the Tournament Organizer role, is not refused as
\* unauthorized by disqualify or end_tournament on that tournament.
HostNeverUnauthorized ==
    \A tid \in DOMAIN TOURNAMENTS : \A actor \in Actors(Lifecycle.users) :
        actor.id = TOURNAMENTS[tid].host =>
            /\ \A player \in Lifecycle.users :
                   disqualify(TOURNAMENTS, actor, tid, player).msg
                       \notin {NoRole, "Only the host or an admin can disqualify a player."}
            /\ end_tournament(TOURNAMENTS, actor, tid).msg
                   \notin {NoRole, "Only host or admin can end the tournament."}

\* ---------------------------------------------------------------- C27
\* The base of each name of CreateNames: lower case, letters, digits and
\* underscore only, the first 20 characters.
BaseOf(name) ==
    CASE name = <<"E", "d", "H", "!">> -> <<"e", "d", "h">>
      [] name = <<"e", "d", "h">> -> <<"e", "d", "h">>
      [] name = <<"e", "_", "1">> -> <<"e", "_", "1">>
      [] OTHER -> [i \in 1..20 |-> "e"]

\* C27: create_tournament under any name gives the new tournament the id
\* base_N with base the base of the name and N the smallest positive integer
\* for which base_N is not in the registry; the id is new, the tournaments
\* already there stay as they are, and every tournament is stored under its
\* own id.
CreateAssignsFreshId ==
    /\ \A tid \in DOMAIN TOURNAMENTS : TOURNAMENTS[tid].id = tid
    /\ \A name \in CreateNames : \A actor \in Actors(Creates.hosts) :
           LET res == create_tournament(TOURNAMENTS, actor, name, 2, 4, 0)
           IN  res.msg = "Tournament created." =>
                   \E N \in 1..(Cardinality(DOMAIN TOURNAMENTS) + 1) :
                       LET tid == <<BaseOf(name), N>>
                       IN  /\ tid \notin DOMAIN TOURNAMENTS
                           /\ \A m \in 1..(N - 1) : <<BaseOf(name), m>> \in DOMAIN TOURNAMENTS
                           /\ DOMAIN res.T = (DOMAIN TOURNAMENTS) \cup {tid}
                           /\ res.T[tid].id = tid /\ res.T[tid].name = name
                           /\ \A old \in DOMAIN TOURNAMENTS : res.T[old] = TOURNAMENTS[old]

\* Two tournaments whose names differ only after the 20th character share a
\* base and have the suffixes 1 and 2, the first has a player, and a third
\* create under that base gets the suffix 3.
CreateAssignsFreshId_Witness ==
    LET base == [i \in 1..20 |-> "e"]
    IN  /\ {<<base, 1>>, <<base, 2>>} \subseteq DOMAIN TOURNAMENTS
        /\ TOURNAMENTS[<<base, 1>>].name # TOURNAMENTS[<<base, 2>>].name
        /\ TOURNAMENTS[<<base, 1>>].players # EmptyDict
        /\ <<<<"e", "d", "h">>, 1>> \in DOMAIN TOURNAMENTS
        /\ generate_tournament_id(TOURNAMENTS, LongName("h")) = <<base, 3>>

\* ---------------------------------------------------------------- C28
\* pods split the players P into pods of s numbered from 1, the last one
\* with 1 to s, none reported and none with results.
FreshPodsOf(pods, P, s) ==
    LET k == Len(pods)
        Seats(pid) == {<<i, j>> \in (1..k) \X (1..Cardinality(P)) :
                          j \in DOMAIN pods[i].players /\ pods[i].players[j] = pid}
    IN  /\ k = (Cardinality(P) + s - 1) \div s
        /\ \A i \in 1..k :
               /\ pods[i].pod_number = i
               /\ Len(pods[i].players) = IF i < k THEN s ELSE Cardinality(P) - s * (k - 1)
               /\ Range(pods[i].players) \subseteq P
               /\ ~pods[i].results_reported
               /\ pods[i].results = EmptyDict
        /\ \A pid \in P : Cardinality(Seats(pid)) = 1

\* C28: start_round, called by an administrator or a Tournament Organizer, is
\* refused and leaves the registry as it was when the tournament does not
\* exist, is finished, has fewer than 2 players or has an active round, in
\* that order; otherwise it appends one round, numbered after the last,
\* active, started at the current time, not notified, whose pods split the
\* players registered at that moment, and changes nothing else.  A caller
\* without role and permission is turned away by the decorator, the registry
\* unchanged.
StartRoundContract ==
    \A tid \in Lifecycle.tids : \A actor \in Actors(Lifecycle.hosts) :
        \A shuffled \in (IF tid \in DOMAIN TOURNAMENTS
                          THEN Shuffles(DOMAIN TOURNAMENTS[tid].players) ELSE {<<>>}) :
            LET res == start_round(TOURNAMENTS, actor, tid, shuffled, now)
                t == TOURNAMENTS[tid]
            IN  IF ~(actor.administrator \/ actor.organizer_role)
                THEN res = Result(TOURNAMENTS, NoRole)
                ELSE IF tid \notin DOMAIN TOURNAMENTS
                THEN res = Result(TOURNAMENTS, "Tournament not found.")
                ELSE IF t.finished
                THEN res = Result(TOURNAMENTS, "Tournament already finished.")
                ELSE IF Cardinality(DOMAIN t.players) < 2
                THEN res = Result(TOURNAMENTS, "Need at least 2 players.")
                ELSE IF \E i \in DOMAIN t.rounds : t.rounds[i].active
                THEN res = Result(TOURNAMENTS, "A round is still active. Finish it first.")
                ELSE /\ res.msg = "Round pods."
                     /\ DOMAIN res.T = DOMAIN TOURNAMENTS
                     /\ \A other \in (DOMAIN TOURNAMENTS) \ {tid} :
                            res.T[other] = TOURNAMENTS[other]
                     /\ [res.T[tid] EXCEPT !.rounds = t.rounds] = t
                     /\ Len(res.T[tid].rounds) = Len(t.rounds) + 1
                     /\ SubSeq(res.T[tid].rounds, 1, Len(t.rounds)) = t.rounds
                     /\ LET rnd == res.T[tid].rounds[Len(t.rounds) + 1]
                        IN  /\ rnd.number = Len(t.rounds) + 1
                            /\ rnd.active
                            /\ rnd.start_time = <<now>>
                            /\ ~rnd.notified_timeout
                            /\ FreshPodsOf(rnd.games, DOMAIN t.players, t.pod_size)

\* The first round is over with points given, and the organizer can start
\* the second: it gets number 2 and two pods of one player.
StartRoundContract_Witness ==
    \E tid \in DOMAIN TOURNAMENTS :
        LET t == TOURNAMENTS[tid]
            organizer == [id |-> 1, administrator |-> FALSE, organizer_role |-> TRUE]
            res == start_round(TOURNAMENTS, organizer, tid, <<2, 1>>, now)
        IN  /\ Len(t.rounds) = 1 /\ ~t.rounds[1].active
            /\ DOMAIN t.players = {1, 2} /\ t.players[1].points > 0
            /\ t.pod_size = 1
            /\ res.msg = "Round pods."
            /\ Len(res.T[tid].rounds[2].games) = 2
            /\ res.T[tid].rounds[2].games[1].players = <<2>>

\* ---------------------------------------------------------------- C29
\* C29: register is refused and leaves the registry as it was when the
\* tournament does not exist, is finished or has the user as a player, in
\* that order; otherwise it adds the one Player of the user, with 0 points and
\* 0 matches, and changes nothing else: the other players, the rounds and
\* their pods and the other tournaments stay.  Every Player is stored under
\* its own id, once.
RegisterContract ==
    /\ \A tid \in DOMAIN TOURNAMENTS : \A pid \in DOMAIN TOURNAMENTS[tid].players :
           TOURNAMENTS[tid].players[pid].id = pid
    /\ \A tid \in Lifecycle.tids : \A user \in Lifecycle.users :
           LET res == register(TOURNAMENTS, user, tid)
               t == TOURNAMENTS[tid]
           IN  IF tid \notin DOMAIN TOURNAMENTS
               THEN res = Result(TOURNAMENTS, "Tournament not found.")
               ELSE IF t.finished
               THEN res = Result(TOURNAMENTS, "Tournament already finished.")
               ELSE IF user \in DOMAIN t.players
               THEN res = Result(TOURNAMENTS, "You are already registered.")
               ELSE /\ res.msg = "registered."
                    /\ DOMAIN res.T = DOMAIN TOURNAMENTS
                    /\ \A other \in (DOMAIN TOURNAMENTS) \ {tid} :
                           res.T[other] = TOURNAMENTS[other]
                    /\ [res.T[tid] EXCEPT !.players = t.players] = t
                    /\ DOMAIN res.T[tid].players = (DOMAIN t.players) \cup {user}
                    /\ \A pid \in DOMAIN t.players : res.T[tid].players[pid] = t.players[pid]
                    /\ res.T[tid].players[user].id = user
                    /\ res.T[tid].players[user].points = 0
                    /\ res.T[tid].players[user].matches_played = 0

\* Player 1 holds points from a reported pod of a running tournament: a
\* second register of user 1 is refused, and user 2, disqualified from the
\* round, can register again without being seated in a pod.
RegisterContract_Witness ==
    \E tid \in DOMAIN TOURNAMENTS :
        LET t == TOURNAMENTS[tid]
        IN  /\ ~t.finished /\ t.rounds # <<>>
            /\ DOMAIN t.players = {1}
            /\ t.players[1].points > 0
            /\ register(TOURNAMENTS, 1, tid).msg = "You are already registered."
            /\ register(TOURNAMENTS, 2, tid).msg = "registered."
            /\ register(TOURNAMENTS, 2, tid).T[tid].rounds = t.rounds

\* ---------------------------------------------------------------- C30
\* C30: whenever report_game records the result of a pod that has a single
\* member, that member has 2 points and 1 match more than before.
SoloPodWorthTwo ==
    \A tid \in DOMAIN TOURNAMENTS : \A pod_number \in Lifecycle.pods :
        \A pod_players \in Lifecycle.ranked :
            LET t == TOURNAMENTS[tid]
                res == report_game(TOURNAMENTS, tid, pod_number, pod_players)
            IN  (/\ RepliesFirst(res)
                 /\ Len(PodOf(t, pod_number)[1].players) = 1)
                => LET sole == PodOf(t, pod_number)[1].players[1]
                   IN  /\ res.T[tid].players[sole].points = t.players[sole].points + 2
                       /\ res.T[tid].players[sole].matches_played
                              = t.players[sole].matches_played + 1

\* ---------------------------------------------------------------- C31
\* C31: in every reachable state every tournament of the registry has
\* pod_size >= 2.
PodSizeAtLeastTwo ==
    \A tid \in DOMAIN TOURNAMENTS : TOURNAMENTS[tid].pod_size >= 2

\* ---------------------------------------------------------------- C32
\* The registry with no tournament but A.
Only(T, A) == [tid \in (DOMAIN T) \cap {A} |-> T[tid]]

\* res, the outcome of a command on A, leaves every other tournament as it
\* was, and is the outcome alone the command has when A is the only
\* tournament.
Independent(res, alone, A) ==
    /\ DOMAIN res.T = DOMAIN TOURNAMENTS
    /\ \A B \in (DOMAIN TOURNAMENTS) \ {A} : res.T[B] = TOURNAMENTS[B]
    /\ res.msg = alone.msg
    /\ DOMAIN alone.T = (DOMAIN TOURNAMENTS) \cap {A}
    /\ A \in DOMAIN TOURNAMENTS => res.T[A] = alone.T[A]

\* C32: register, start_round, report_game, disqualify and end_tournament on
\* a tournament A leave every other tournament of the registry unchanged, and
\* reply and do to A what they do when A is the only tournament.
TournamentsIndependent ==
    \A A \in Two.tids :
        LET T == TOURNAMENTS
            T1 == Only(TOURNAMENTS, A)
        IN  /\ \A user \in Two.users :
                   Independent(register(T, user, A), register(T1, user, A), A)
            /\ \A actor \in Actors(Two.hosts) :
                   \A shuffled \in (IF A \in DOMAIN T THEN Shuffles(DOMAIN T[A].players)
                                    ELSE {<<>>}) :
                       Independent(start_round(T, actor, A, shuffled, now),
                                   start_round(T1, actor, A, shuffled, now), A)
            /\ \A pod_number \in Two.pods : \A pod_players \in Two.ranked :
                   Independent(report_game(T, A, pod_number, pod_players),
                               report_game(T1, A, pod_number, pod_players), A)
            /\ \A actor \in Actors(Two.users) :
                   /\ \A player \in Two.users :
                          Independent(disqualify(T, actor, A, player),
                                      disqualify(T1, actor, A, player), A)
                   /\ Independent(end_tournament(T, actor, A), end_tournament(T1, actor, A), A)

\* Two tournaments in different states, one finished after its round was
\* reported, the other with its round running and both players seated: a
\* report, a disqualification and the end of the second go through, and a
\* register for it is refused.
TournamentsIndependent_Witness ==
    LET A == <<<<"e", "d", "h">>, 2>>
        B == <<<<"e", "d", "h">>, 1>>
        host == [id |-> 1, administrator |-> FALSE, organizer_role |-> TRUE]
    IN  /\ {A, B} \subseteq DOMAIN TOURNAMENTS
        /\ TOURNAMENTS[B].finished
        /\ TOURNAMENTS[B].rounds # <<>> /\ ~TOURNAMENTS[B].rounds[1].active
        /\ 1 \in DOMAIN TOURNAMENTS[B].players /\ TOURNAMENTS[B].players[1].points > 0
        /\ ~TOURNAMENTS[A].finished
        /\ report_game(TOURNAMENTS, A, 1, <<1, 2>>).msg \in Reported
        /\ disqualify(TOURNAMENTS, host, A, 2).msg = "disqualified."
        /\ end_tournament(TOURNAMENTS, host, A).msg = "Tournament is now finished."
        /\ register(TOURNAMENTS, 1, A).msg = "You are already registered."

\* ---------------------------------------------------------------- C33
\* The registry T2 differs from the present one at most in notified_timeout
\* flags that went from false to true, of rounds that are active, have a
\* start_time and started more than time_limit minutes ago.
OnlyFlagsOverdue(T2) ==
    /\ DOMAIN T2 = DOMAIN TOURNAMENTS
    /\ \A tid \in DOMAIN TOURNAMENTS :
           LET t == TOURNAMENTS[tid]
           IN  /\ [T2[tid] EXCEPT !.rounds = t.rounds] = t
               /\ DOMAIN T2[tid].rounds = DOMAIN t.rounds
               /\ \A i \in DOMAIN t.rounds :
                      LET r == t.rounds[i]
                          r2 == T2[tid].rounds[i]
                      IN  /\ [r2 EXCEPT !.notified_timeout = r.notified_timeout] = r
                          /\ r2.notified_timeout # r.notified_timeout =>
                                 /\ ~r.notified_timeout /\ r2.notified_timeout
                                 /\ r.active
                                 /\ r.start_time # None
                                 /\ now - r.start_time[1] > SecondsPerMinute * t.time_limit

\* C33: a step of the watchdog, from the start of a sweep or from the awaits
\* of a notification, changes nothing in the registry but notified_timeout
\* flags, from false to true, of rounds that are active, have start_time set
\* and are more than time_limit minutes old: no round's active flag, no pod's
\* results_reported or results and no player changes.
SweepOnlySetsFlag ==
    /\ watchdog.pc = "awake" => OnlyFlagsOverdue(begin_sweep(TOURNAMENTS, now).T)
    /\ watchdog.pc = "notify" =>
           \A dm_fails, channel_fails \in BOOLEAN :
               OnlyFlagsOverdue(notify_pod(TOURNAMENTS, watchdog, notices,
                                           dm_fails, channel_fails).T)

\* The watchdog is about to sweep a round that is past its limit, still
\* active, with one pod reported and its points given and one pod not
\* reported: the sweep flags the round and leaves it active.
SweepOnlySetsFlag_Witness ==
    /\ watchdog.pc = "awake"
    /\ \E tid \in DOMAIN TOURNAMENTS :
           LET t == TOURNAMENTS[tid]
               res == begin_sweep(TOURNAMENTS, now)
           IN  /\ Len(t.rounds) = 1
               /\ t.rounds[1].active /\ ~t.rounds[1].notified_timeout
               /\ \E j \in DOMAIN t.rounds[1].games :
                      /\ t.rounds[1].games[j].results_reported
                      /\ t.rounds[1].games[j].results # EmptyDict
               /\ \E pid \in DOMAIN t.players : t.players[pid].points > 0
               /\ res.T[tid].rounds[1].notified_timeout
               /\ res.T[tid].rounds[1].active
               /\ res.wd.pc = "notify"

\* ---------------------------------------------------------------- C34
\* The i-th round of every tournament has number i.
RoundsNumbered ==
    \A tid \in DOMAIN TOURNAMENTS : \A i \in DOMAIN TOURNAMENTS[tid].rounds :
        TOURNAMENTS[tid].rounds[i].number = i

\* pod_number of the pods of round r, in their order.
PodNumbers(r) == [j \in DOMAIN r.games |-> r.games[j].pod_number]

\* A step keeps every round where it is: the tournament stays, its rounds
\* get no shorter, and the round at each position has the number and the
\* pods it had and the time it was started at (or none, once the registry was
\* loaded from the file).
RoundsKept ==
    \A tid \in DOMAIN TOURNAMENTS :
        /\ tid \in DOMAIN TOURNAMENTS'
        /\ Len(TOURNAMENTS'[tid].rounds) >= Len(TOURNAMENTS[tid].rounds)
        /\ \A i \in DOMAIN TOURNAMENTS[tid].rounds :
               LET r == TOURNAMENTS[tid].rounds[i]
                   r2 == TOURNAMENTS'[tid].rounds[i]
               IN  /\ r2.number = r.number
                   /\ PodNumbers(r2) = PodNumbers(r)
                   /\ r2.start_time \in {r.start_time, None}

\* C34: in every reachable state the i-th round of a tournament has number
\* i, and no step removes, reorders or renumbers a round: rounds only grows
\* at its end.
RoundsSequentialAppendOnly == []RoundsNumbered /\ [][RoundsKept]_vars

\* A tournament with two rounds started at different times, the first
\* closed with its results, the second running.
RoundsSequentialAppendOnly_Witness ==
    \E tid \in DOMAIN TOURNAMENTS :
        LET t == TOURNAMENTS[tid]
        IN  /\ Len(t.rounds) = 2
            /\ ~t.rounds[1].active /\ t.rounds[1].games[1].results # EmptyDict
            /\ t.rounds[2].active
            /\ t.rounds[1].start_time # None /\ t.rounds[2].start_time # None
            /\ t.rounds[1].start_time # t.rounds[2].start_time

\* ---------------------------------------------------------------- C35
\* C35: an active round is the last of its tournament's rounds.  A report
\* that is refused leaves the registry as it was, and is refused with "The
\* current round has ended." only when no round of the tournament is active;
\* a report that is recorded finds the last round active and changes, among
\* the rounds, only the pod of that number in the last round.
ReportOnlyLatestActiveRound ==
    /\ \A tid \in DOMAIN TOURNAMENTS : \A i \in DOMAIN TOURNAMENTS[tid].rounds :
           TOURNAMENTS[tid].rounds[i].active => i = Len(TOURNAMENTS[tid].rounds)
    /\ \A tid \in Lifecycle.tids : \A pod_number \in Lifecycle.pods :
           \A pod_players \in Lifecycle.ranked :
               LET res == report_game(TOURNAMENTS, tid, pod_number, pod_players)
                   t == TOURNAMENTS[tid]
                   last == Len(t.rounds)
               IN  IF res.msg \notin Reported
                   THEN /\ res.T = TOURNAMENTS
                        /\ res.msg \in {"Tournament not found.", "No rounds started.",
                                        "The current round has ended.", "Pod not found.",
                                        "This pod already reported."}
                        /\ res.msg = "The current round has ended." => ActiveRounds(tid) = {}
                   ELSE /\ t.rounds[last].active
                        /\ Len(res.T[tid].rounds) = last
                        /\ \A i \in 1..(last - 1) : res.T[tid].rounds[i] = t.rounds[i]
                        /\ DOMAIN res.T[tid].rounds[last].games = DOMAIN t.rounds[last].games
                        /\ \A j \in DOMAIN t.rounds[last].games :
                               t.rounds[last].games[j].pod_number # pod_number =>
                                   res.T[tid].rounds[last].games[j] = t.rounds[last].games[j]

\* The first round is closed with its results and the second is running: a
\* report for pod 1 is recorded in the second round; and in a tournament
\* whose only round is closed a report is refused as the round has ended.
ReportOnlyLatestActiveRound_Witness ==
    \E tid \in DOMAIN TOURNAMENTS :
        LET t == TOURNAMENTS[tid]
            res == report_game(TOURNAMENTS, tid, 1, <<1, 2>>)
        IN  /\ Len(t.rounds) = 2
            /\ ~t.rounds[1].active /\ t.rounds[1].games[1].results # EmptyDict
            /\ t.rounds[2].active
            /\ res.msg \in Reported
            /\ res.T[tid].rounds[1] = t.rounds[1]
            /\ res.T[tid].rounds[2].games[1].results # EmptyDict
            /\ report_game(res.T, tid, 1, <<1, 2>>).msg
                   \in {"The current round has ended.", "This pod already reported."}

\* ---------------------------------------------------------------- C36
\* The notifications attempted in this step.
Emitted == {a \in DOMAIN notices' : a \notin DOMAIN notices \/ notices'[a] > notices[a]}

\* C36: whenever the watchdog sends a notification for a pod, that pod is not
\* reported and its round is active at that moment, whatever handlers ran
\* while the sweep was suspended.
NoNoticeForReportedPod ==
    [][\A a \in Emitted :
           LET r == TOURNAMENTS[a.tid].rounds[a.number]
           IN  /\ r.active
               /\ \A j \in DOMAIN r.games :
                      r.games[j].pod_number = a.pod_number => ~r.games[j].results_reported]_vars

\* ---------------------------------------------------------------- C37
\* C37: the loop of make_pods ends, for every pod_size create_tournament
\* stores and every list of players: each iteration leaves fewer players to
\* seat than it found, so that a list of n players is seated in at most n
\* iterations.
MakePodsLoopEnds ==
    [][probe.fn = "make_pods_loop" =>
           Len(probe'.out.players) < Len(probe.out.players)]_vars

\* ---------------------------------------------------------------- C38
\* The pods of t, as <<round index, pod index>>, whose results name p.
PodsNaming(t, p) ==
    {ij \in UNION {{<<i, j>> : j \in DOMAIN t.rounds[i].games} : i \in DOMAIN t.rounds} :
        p \in DOMAIN t.rounds[ij[1]].games[ij[2]].results}

\* The sum of results[p] over the pods S of t.
RECURSIVE PointsIn(_, _, _)
PointsIn(t, p, S) ==
    IF S = {} THEN 0
    ELSE LET ij == CHOOSE x \in S : TRUE
         IN  t.rounds[ij[1]].games[ij[2]].results[p] + PointsIn(t, p, S \ {ij})

\* C38: in every reachable state every registered player's points are the
\* sum of that player's entries in the results of the pods of the tournament,
\* and the player's matches_played is the number of those pods.
PointsMatchResults ==
    \A tid \in DOMAIN TOURNAMENTS : \A p \in DOMAIN TOURNAMENTS[tid].players :
        LET t == TOURNAMENTS[tid]
        IN  /\ t.players[p].points = PointsIn(t, p, PodsNaming(t, p))
            /\ t.players[p].matches_played = Cardinality(PodsNaming(t, p))

\* ---------------------------------------------------------------- C39
\* The sum of the points of all players of t.
RECURSIVE TotalPoints(_, _)
TotalPoints(t, S) ==
    IF S = {} THEN 0
    ELSE LET p == CHOOSE x \in S : TRUE
         IN  t.players[p].points + TotalPoints(t, S \ {p})

\* C39: every report_game that is recorded with k ranked entries, repeated
\* ids among them or not, leaves k entries in the results of the pod and
\* raises the sum of all players' points by the sum of
\* get_point_allocation(k): 5 for 2 entries, 9 for 3, 10 for 4.
ReportAwardsWholeAllocation ==
    \A tid \in DOMAIN TOURNAMENTS : \A pod_number \in Lifecycle.pods :
        \A pod_players \in Lifecycle.ranked :
            LET t == TOURNAMENTS[tid]
                res == report_game(TOURNAMENTS, tid, pod_number, pod_players)
                k == Len(pod_players)
            IN  res.msg \in Reported =>
                    LET t2 == res.T[tid]
                    IN  /\ Cardinality(DOMAIN PodOf(t2, pod_number)[1].results) = k
                        /\ TotalPoints(t2, DOMAIN t2.players)
                               = TotalPoints(t, DOMAIN t.players)
                                 + (CASE k = 2 -> 5 [] k = 3 -> 9 [] k = 4 -> 10)

\* ---------------------------------------------------------------- C40
\* C40: a user whom disqualify removed from the players of a tournament is
\* not a player of it after a register of that user.
DisqualifiedStaysOut ==
    \A tid \in DOMAIN TOURNAMENTS : \A actor \in Actors(Lifecycle.users) :
        \A player \in Lifecycle.users :
            LET res == disqualify(TOURNAMENTS, actor, tid, player)
            IN  res.msg = "disqualified." =>
                    /\ player \notin DOMAIN res.T[tid].players
                    /\ player \notin DOMAIN register(res.T, player, tid).T[tid].players

====
